---- MODULE Spec2Model ----
(***************************************************************************)
(* A model of Brd_Viewer.py: the EAGLE .brd parser (EagleParser), the      *)
(* bounds computation that ends a parse, and the parts of the viewer       *)
(* (BRDViewer) that consume the parsed Board: open_brd, the net list and   *)
(* the instancing of package shapes for a placement.                       *)
(*                                                                         *)
(* Lengths are integers in units of 0.01 mm (width default 0.1 -> 10,      *)
(* text size default 1.27 -> 127).  Document coordinates are multiples of  *)
(* 1 mm, so the rectangle centre (x_min + x_max) / 2 is exact.  Angles are *)
(* degrees; the rotation descriptors of the model are multiples of 90, for *)
(* which cos and sin are taken exactly (-1, 0, 1).                         *)
(*                                                                         *)
(* The document is read element by element: each parser step draws the    *)
(* next XML element of the container it is in from a small set.            *)
(***************************************************************************)
EXTENDS Integers, Sequences, FiniteSets, TLC

VARIABLES
    pc,          \* position of open_brd / EagleParser.parse
    containers,  \* what ET.parse and the two find() calls of parse saw
    board,       \* EagleParser.board
    pkg,         \* _parse_libraries: <<>> or <<[name, shapes]>> of the package being read
    sig,         \* _parse_signals: <<>> or <<name>> of the signal being read
    sub,         \* index of the findall() loop the current container is in
    n,           \* number of XML elements read so far
    last,        \* the XML element read by the latest step, with its container
    err,         \* the exception parse raised, "" if none
    v_board,     \* BRDViewer.board: <<>> (None) or <<Board>>
    layer_checks,\* BRDViewer.layer_checks: layer number -> BOOLEAN
    net_list,    \* contents of the net list box
    canvas,      \* instanced package shapes drawn by the last redraw, per placement
    comp_list,   \* rows of the component list box
    search_var,  \* text of the component search entry
    net_search_var, \* text of the net search entry
    selected_element, \* BRDViewer.selected_element: <<>> (None) or <<Element>>
    selected_net,\* BRDViewer.selected_net: <<>> (None) or <<name>>
    view,        \* BRDViewer.scale, offset_x, offset_y
    exported,    \* what the last export drew into the image file
    events,      \* number of user interface events handled so far
    ev,          \* the event handled last: its handler, its pointer position, its message box
    file_path,   \* BRDViewer.file_path: <<>> (None) or <<the file>>
    measure_mode,\* BRDViewer.measure_mode
    measure_points, \* BRDViewer.measure_points, world coordinates
    drag_start,  \* BRDViewer._drag_start: <<>> (None) or <<x, y, offset_x, offset_y>>
    parsers,     \* the EagleParser objects constructed so far: path, board, calls of parse
    returned,    \* per parse() call that returned: the parser and the Board as returned
    lyr,         \* a layer id handed to _flip_layer
    flipped,     \* what _flip_layer returned for it, applied `flips` times
    flips

vars == <<pc, containers, board, pkg, sig, sub, n, last, err,
          v_board, layer_checks, net_list, canvas, comp_list, search_var, net_search_var,
          selected_element, selected_net, view, exported, events, ev, file_path,
          measure_mode, measure_points, drag_start, parsers, returned,
          lyr, flipped, flips>>

\* Bound on the number of XML elements (and package / signal openings) of a document.
MaxElems == 3

\* Bound on the layer ids handed to _flip_layer
MaxLayerId == 60

-----------------------------------------------------------------------------
(* Attribute values of the XML document *)

Num(v) == [st |-> "val", v |-> v]
Bad == [st |-> "bad", v |-> 0]          \* text that float() and int() reject
Absent == [st |-> "absent", v |-> 0]    \* attribute not present
Str(s) == [st |-> "val", s |-> s]
NoStr == [st |-> "absent", s |-> <<>>]
Txt(t) == [st |-> "val", t |-> t]
NoTxt == [st |-> "absent", t |-> ""]

Mm(k) == 100 * k

Raise == [ok |-> FALSE, v |-> 0]
Ok(v) == [ok |-> TRUE, v |-> v]

\* float(el.get(attr, default)) and int(el.get(attr, default))
ParseFloat(a, d) ==
    IF a.st = "absent" THEN Ok(d)
    ELSE IF a.st = "bad" THEN Raise
    ELSE Ok(a.v)

\* el.get(attr, default) for a text attribute
GetTxt(a, d) == IF a.st = "absent" THEN d ELSE a.t

\* el.get('rot', default): a string, as a sequence of characters
GetStr(a, d) == IF a.st = "absent" THEN d ELSE a.s

-----------------------------------------------------------------------------
(* Strings: str.lstrip, the `in` test and float() on a string *)

Digits == {"0", "1", "2", "3", "4", "5", "6", "7", "8", "9"}

DigitVal(c) ==
    CASE c = "0" -> 0 [] c = "1" -> 1 [] c = "2" -> 2 [] c = "3" -> 3 [] c = "4" -> 4
      [] c = "5" -> 5 [] c = "6" -> 6 [] c = "7" -> 7 [] c = "8" -> 8 [] c = "9" -> 9

RECURSIVE LStrip(_, _)
LStrip(s, c) ==
    IF s # <<>> /\ Head(s) = c THEN LStrip(Tail(s), c) ELSE s

Contains(s, c) == \E i \in 1..Len(s) : s[i] = c

RECURSIVE DigitsVal(_, _)
DigitsVal(s, acc) ==
    IF s = <<>> THEN acc ELSE DigitsVal(Tail(s), 10 * acc + DigitVal(Head(s)))

\* float(s) for a string over digits and letters: an unsigned decimal integer
\* converts, anything else (the empty string included) raises ValueError.
FloatStr(s) ==
    IF s # <<>> /\ \A i \in 1..Len(s) : s[i] \in Digits
    THEN Ok(DigitsVal(s, 0))
    ELSE Raise

\* float(rot_str.lstrip('R').lstrip('M')) of the pad, SMD, rectangle and text handlers
ShapeRot(rot_str) == FloatStr(LStrip(LStrip(rot_str, "R"), "M"))

\* EagleParser._parse_rot and BRDViewer._parse_rot (the same code twice)
ParseRot(rot_str) ==
    IF rot_str = <<>> THEN Ok(0)
    ELSE LET mirror == Head(rot_str) = "M"
             stripped == LStrip(rot_str, "M")
             rot == IF stripped # <<>> THEN FloatStr(LStrip(stripped, "R")) ELSE Ok(0)
         IN IF ~rot.ok THEN Raise
            ELSE IF mirror THEN Ok(-rot.v) ELSE rot

R0 == <<"R", "0">>

-----------------------------------------------------------------------------
(* Data structures *)

EmptyMap == <<>>

Put(f, k, v) == [x \in (DOMAIN f) \cup {k} |-> IF x = k THEN v ELSE f[x]]

\* dict.get(key, default)
MapGet(f, k, d) == IF k \in DOMAIN f THEN f[k] ELSE d

\* Board()
NewBoard ==
    [layers |-> EmptyMap, wires |-> <<>>, vias |-> <<>>, pads |-> <<>>, smds |-> <<>>,
     elements |-> <<>>, polygons |-> <<>>, texts |-> <<>>, packages |-> EmptyMap,
     bounds |-> <<>>]

\* The layer of the board outline, tested by _add_polygon_from_xml
OUTLINE_LAYER == 20

-----------------------------------------------------------------------------
(* The element handlers of EagleParser.  Each returns the board after the  *)
(* call and, as obj, <<the object>> or <<>> for None.                      *)

Skipped(b) == [board |-> b, obj |-> <<>>]

AddWireFromXml_StoresDefaults(b, w_el, kind) ==
    LET F(a, d) == IF a.st = "val" THEN a.v ELSE d
        w == [type |-> "Wire", x1 |-> F(w_el.x1, 0), y1 |-> F(w_el.y1, 0),
              x2 |-> F(w_el.x2, 0), y2 |-> F(w_el.y2, 0), width |-> F(w_el.width, 10),
              layer |-> F(w_el.layer, 0), kind |-> kind, net |-> ""]
    IN [board |-> [b EXCEPT !.wires = Append(@, w)], obj |-> <<w>>]

AddWireFromXml(b, w_el, kind) ==
    LET x1 == ParseFloat(w_el.x1, 0)
        y1 == ParseFloat(w_el.y1, 0)
        x2 == ParseFloat(w_el.x2, 0)
        y2 == ParseFloat(w_el.y2, 0)
        width == ParseFloat(w_el.width, 10)
        layer == ParseFloat(w_el.layer, 0)
    IN IF x1.ok /\ y1.ok /\ x2.ok /\ y2.ok /\ width.ok /\ layer.ok
       THEN LET w == [type |-> "Wire", x1 |-> x1.v, y1 |-> y1.v, x2 |-> x2.v, y2 |-> y2.v,
                      width |-> width.v, layer |-> layer.v, kind |-> kind, net |-> ""]
            IN [board |-> [b EXCEPT !.wires = Append(@, w)], obj |-> <<w>>]
       ELSE Skipped(b)

AddViaFromXml(b, v_el, net) ==
    LET x == ParseFloat(v_el.x, 0)
        y == ParseFloat(v_el.y, 0)
        drill == ParseFloat(v_el.drill, 0)
        diameter == IF v_el.diameter.st = "absent" THEN Ok(0) ELSE ParseFloat(v_el.diameter, 0)
        extent == GetTxt(v_el.extent, "")
    IN IF x.ok /\ y.ok /\ drill.ok /\ diameter.ok
       THEN LET v == [type |-> "Via", x |-> x.v, y |-> y.v, drill |-> drill.v,
                      diameter |-> diameter.v, extent |-> extent, net |-> net]
            IN [board |-> [b EXCEPT !.vias = Append(@, v)], obj |-> <<v>>]
       ELSE Skipped(b)

AddPadFromXml(b, p_el) ==
    LET name == GetTxt(p_el.name, "")
        x == ParseFloat(p_el.x, 0)
        y == ParseFloat(p_el.y, 0)
        drill == ParseFloat(p_el.drill, 0)
        diameter == ParseFloat(p_el.diameter, 0)
        shape == GetTxt(p_el.shape, "round")
        layer == ParseFloat(p_el.layer, 0)
        rot == ShapeRot(GetStr(p_el.rot, R0))
    IN IF x.ok /\ y.ok /\ drill.ok /\ diameter.ok /\ layer.ok /\ rot.ok
       THEN LET d == IF shape # "round" THEN diameter.v ELSE 0
                p == [type |-> "Pad", name |-> name, x |-> x.v, y |-> y.v, drill |-> drill.v,
                      diameter |-> diameter.v, dx |-> d, dy |-> d, shape |-> shape,
                      layer |-> layer.v, rot |-> rot.v]
            IN [board |-> [b EXCEPT !.pads = Append(@, p)], obj |-> <<p>>]
       ELSE Skipped(b)

AddSmdFromXml(b, s_el) ==
    LET name == GetTxt(s_el.name, "")
        x == ParseFloat(s_el.x, 0)
        y == ParseFloat(s_el.y, 0)
        dx == ParseFloat(s_el.dx, 0)
        dy == ParseFloat(s_el.dy, 0)
        layer == ParseFloat(s_el.layer, 0)
        roundness == ParseFloat(s_el.roundness, 0)
        rot == ShapeRot(GetStr(s_el.rot, R0))
    IN IF x.ok /\ y.ok /\ dx.ok /\ dy.ok /\ layer.ok /\ roundness.ok /\ rot.ok
       THEN LET s == [type |-> "SMD", name |-> name, x |-> x.v, y |-> y.v, dx |-> dx.v,
                      dy |-> dy.v, layer |-> layer.v, roundness |-> roundness.v,
                      rot |-> rot.v]
            IN [board |-> [b EXCEPT !.smds = Append(@, s)], obj |-> <<s>>]
       ELSE Skipped(b)

AddCircleFromXml(b, c_el) ==
    LET x == ParseFloat(c_el.x, 0)
        y == ParseFloat(c_el.y, 0)
        radius == ParseFloat(c_el.radius, 0)
        width == ParseFloat(c_el.width, 10)
        layer == ParseFloat(c_el.layer, 0)
    IN IF x.ok /\ y.ok /\ radius.ok /\ width.ok /\ layer.ok
       THEN [board |-> b,
             obj |-> <<[type |-> "Circle", x |-> x.v, y |-> y.v, radius |-> radius.v,
                        width |-> width.v, layer |-> layer.v]>>]
       ELSE Skipped(b)

AddRectFromXml(b, r_el) ==
    LET x1 == ParseFloat(r_el.x1, 0)
        y1 == ParseFloat(r_el.y1, 0)
        x2 == ParseFloat(r_el.x2, 0)
        y2 == ParseFloat(r_el.y2, 0)
        layer == ParseFloat(r_el.layer, 0)
        rot == ShapeRot(GetStr(r_el.rot, R0))
    IN IF x1.ok /\ y1.ok /\ x2.ok /\ y2.ok /\ layer.ok /\ rot.ok
       THEN [board |-> b,
             obj |-> <<[type |-> "Rect", x1 |-> x1.v, y1 |-> y1.v, x2 |-> x2.v, y2 |-> y2.v,
                        layer |-> layer.v, rot |-> rot.v]>>]
       ELSE Skipped(b)

\* The vertex loop of _add_polygon_from_xml: <<vertices>>, or <<>> when a float() raised
RECURSIVE ParseVertices(_, _)
ParseVertices(vs, acc) ==
    IF vs = <<>> THEN <<acc>>
    ELSE LET vx == ParseFloat(Head(vs).x, 0)
             vy == ParseFloat(Head(vs).y, 0)
         IN IF vx.ok /\ vy.ok
            THEN ParseVertices(Tail(vs), Append(acc, <<vx.v, vy.v>>))
            ELSE <<>>

IsOutline(layer) == layer = OUTLINE_LAYER

PolygonFill_IgnoresOutline(net, is_outline) == net # ""

PolygonFill(net, is_outline) == (net # "") /\ ~is_outline

AddPolygonFromXml_TwoVertices(b, p_el, net, in_package) ==
    LET layer == ParseFloat(p_el.layer, 0)
        width == ParseFloat(p_el.width, 10)
        verts == IF layer.ok /\ width.ok THEN ParseVertices(p_el.vertices, <<>>) ELSE <<>>
    IN IF verts # <<>> /\ Len(verts[1]) > 1
       THEN LET is_outline == IsOutline(layer.v)
                fill == PolygonFill(net, is_outline)
                p == [type |-> "Polygon", vertices |-> verts[1], layer |-> layer.v,
                      width |-> width.v, net |-> net, fill |-> fill,
                      is_outline |-> is_outline]
            IN IF in_package
               THEN [board |-> b, obj |-> <<p>>]
               ELSE [board |-> [b EXCEPT !.polygons = Append(@, p)], obj |-> <<p>>]
       ELSE Skipped(b)

AddPolygonFromXml(b, p_el, net, in_package) ==
    LET layer == ParseFloat(p_el.layer, 0)
        width == ParseFloat(p_el.width, 10)
        verts == IF layer.ok /\ width.ok THEN ParseVertices(p_el.vertices, <<>>) ELSE <<>>
    IN IF verts # <<>> /\ Len(verts[1]) > 2
       THEN LET is_outline == IsOutline(layer.v)
                fill == PolygonFill(net, is_outline)
                p == [type |-> "Polygon", vertices |-> verts[1], layer |-> layer.v,
                      width |-> width.v, net |-> net, fill |-> fill,
                      is_outline |-> is_outline]
            IN IF in_package
               THEN [board |-> b, obj |-> <<p>>]
               ELSE [board |-> [b EXCEPT !.polygons = Append(@, p)], obj |-> <<p>>]
       ELSE Skipped(b)

AddTextFromXml(b, t_el) ==
    LET x == ParseFloat(t_el.x, 0)
        y == ParseFloat(t_el.y, 0)
        layer == ParseFloat(t_el.layer, 0)
        size == ParseFloat(t_el.size, 127)
        rot == ShapeRot(GetStr(t_el.rot, R0))
    IN IF x.ok /\ y.ok /\ layer.ok /\ size.ok /\ rot.ok
       THEN LET t == [type |-> "Text", x |-> x.v, y |-> y.v, text |-> t_el.text,
                      layer |-> layer.v, size |-> size.v, rot |-> rot.v]
            IN [board |-> [b EXCEPT !.texts = Append(@, t)], obj |-> <<t>>]
       ELSE Skipped(b)

AddLayerFromXml_KeepsFirst(b, l) ==
    LET num == ParseFloat(l.number, 0)
        color == ParseFloat(l.color, 7)
        name == GetTxt(l.name, "L" \o ToString(num.v))
        visible == GetTxt(l.visible, "yes") = "yes"
        active == GetTxt(l.active, "yes") = "yes"
    IN IF num.ok /\ color.ok /\ num.v \notin DOMAIN b.layers
       THEN [b EXCEPT !.layers = Put(@, num.v, [number |-> num.v, name |-> name,
                                                color |-> color.v, visible |-> visible,
                                                active |-> active])]
       ELSE b

\* One iteration of the loop of _parse_layers
AddLayerFromXml(b, l) ==
    LET num == ParseFloat(l.number, 0)
        color == ParseFloat(l.color, 7)
        name == GetTxt(l.name, "L" \o ToString(num.v))
        visible == GetTxt(l.visible, "yes") = "yes"
        active == GetTxt(l.active, "yes") = "yes"
    IN IF num.ok /\ color.ok
       THEN [b EXCEPT !.layers = Put(@, num.v, [number |-> num.v, name |-> name,
                                                color |-> color.v, visible |-> visible,
                                                active |-> active])]
       ELSE b

\* One iteration of the loop of _parse_elements
AddElementFromXml(b, e) ==
    LET x == ParseFloat(e.x, 0)
        y == ParseFloat(e.y, 0)
    IN IF x.ok /\ y.ok
       THEN [b EXCEPT !.elements =
                Append(@, [name |-> GetTxt(e.name, ""), value |-> GetTxt(e.value, ""),
                           library |-> GetTxt(e.library, ""),
                           package |-> GetTxt(e.package, ""),
                           x |-> x.v, y |-> y.v, rot |-> GetStr(e.rot, <<>>)])]
       ELSE b

-----------------------------------------------------------------------------
(* Arithmetic of the transforms *)

\* math.cos(math.radians(d)) and math.sin(math.radians(d)), d a multiple of 90
Cos(d) == CASE d % 360 = 0 -> 1 [] d % 360 = 90 -> 0 [] d % 360 = 180 -> -1 [] d % 360 = 270 -> 0
Sin(d) == CASE d % 360 = 0 -> 0 [] d % 360 = 90 -> 1 [] d % 360 = 180 -> 0 [] d % 360 = 270 -> -1

Min2(a, b) == IF a <= b THEN a ELSE b
Max2(a, b) == IF a >= b THEN a ELSE b
SetMin(S) == CHOOSE m \in S : \A x \in S : m <= x
SetMax(S) == CHOOSE m \in S : \A x \in S : m >= x

\* (a + b) / 2 for a + b even
Half(k) == k \div 2

Indices(s) == 1..Len(s)

-----------------------------------------------------------------------------
(* EagleParser._compute_bounds *)

\* rx = x if not mirror else -x; rotate by angle; add the element position
BoundsPoint(e, angle, mirror, x, y) ==
    LET rx == IF ~mirror THEN x ELSE -x
        ry == y
        rx_rot == rx * Cos(angle) - ry * Sin(angle)
        ry_rot == rx * Sin(angle) + ry * Cos(angle)
    IN <<e.x + rx_rot, e.y + ry_rot>>

\* The points one package shape adds to xs, ys
BoundsShapePoints(e, angle, mirror, shape) ==
    CASE shape.type = "Wire" ->
            {BoundsPoint(e, angle, mirror, shape.x1, shape.y1),
             BoundsPoint(e, angle, mirror, shape.x2, shape.y2)}
      [] shape.type \in {"Pad", "SMD", "Circle"} ->
            {BoundsPoint(e, angle, mirror, shape.x, shape.y)}
      [] shape.type = "Rect" ->
            LET x1 == IF ~mirror THEN shape.x1 ELSE -shape.x1
                y1 == shape.y1
                x2 == IF ~mirror THEN shape.x2 ELSE -shape.x2
                y2 == shape.y2
                corners == {<<Min2(x1, x2), Min2(y1, y2)>>, <<Min2(x1, x2), Max2(y1, y2)>>,
                            <<Max2(x1, x2), Min2(y1, y2)>>, <<Max2(x1, x2), Max2(y1, y2)>>}
            IN {<<e.x + (c[1] * Cos(angle) - c[2] * Sin(angle)),
                  e.y + (c[1] * Sin(angle) + c[2] * Cos(angle))>> : c \in corners}
      [] shape.type = "Polygon" ->
            {BoundsPoint(e, angle, mirror, shape.vertices[i][1], shape.vertices[i][2]) :
                i \in Indices(shape.vertices)}

\* The points one element adds to xs, ys (its position and its package's shapes)
BoundsElementPoints(b, e) ==
    LET package_shapes == MapGet(b.packages, e.package, <<>>)
        angle == ParseRot(e.rot).v
        mirror == Contains(e.rot, "M")
    IN {<<e.x, e.y>>} \cup
       UNION {BoundsShapePoints(e, angle, mirror, package_shapes[i]) :
                i \in Indices(package_shapes)}

\* The coordinate pairs appended to xs and ys.  The lists are read only through
\* min, max and emptiness, so their set of pairs stands for them.
BoundsPoints(b) ==
    UNION {{<<b.wires[i].x1, b.wires[i].y1>>, <<b.wires[i].x2, b.wires[i].y2>>} :
              i \in Indices(b.wires)}
    \cup {<<b.vias[i].x, b.vias[i].y>> : i \in Indices(b.vias)}
    \cup {<<b.pads[i].x, b.pads[i].y>> : i \in Indices(b.pads)}
    \cup {<<b.smds[i].x, b.smds[i].y>> : i \in Indices(b.smds)}
    \cup UNION {BoundsElementPoints(b, b.elements[i]) : i \in Indices(b.elements)}
    \cup UNION {{<<b.polygons[i].vertices[j][1], b.polygons[i].vertices[j][2]>> :
                    j \in Indices(b.polygons[i].vertices)} : i \in Indices(b.polygons)}

DefaultBounds == <<0, 0, Mm(100), Mm(100)>>

ComputeBounds_KeyError(b) ==
    IF \E i \in Indices(b.elements) :
          \/ ~ParseRot(b.elements[i].rot).ok
          \/ b.elements[i].package \notin DOMAIN b.packages
    THEN Raise
    ELSE LET pts == BoundsPoints(b)
             xs == {p[1] : p \in pts}
             ys == {p[2] : p \in pts}
         IN IF pts # {}
            THEN Ok(<<SetMin(xs), SetMin(ys), SetMax(xs), SetMax(ys)>>)
            ELSE Ok(DefaultBounds)

ComputeBounds_NoDefault(b) ==
    IF \E i \in Indices(b.elements) : ~ParseRot(b.elements[i].rot).ok
    THEN Raise
    ELSE LET pts == BoundsPoints(b)
             xs == {p[1] : p \in pts}
             ys == {p[2] : p \in pts}
         IN IF pts # {}
            THEN Ok(<<SetMin(xs), SetMin(ys), SetMax(xs), SetMax(ys)>>)
            ELSE Ok(<<>>)

\* Ok(bounds), or Raise when _parse_rot raises ValueError on an element's descriptor
ComputeBounds(b) ==
    IF \E i \in Indices(b.elements) : ~ParseRot(b.elements[i].rot).ok
    THEN Raise
    ELSE LET pts == BoundsPoints(b)
             xs == {p[1] : p \in pts}
             ys == {p[2] : p \in pts}
         IN IF pts # {}
            THEN Ok(<<SetMin(xs), SetMin(ys), SetMax(xs), SetMax(ys)>>)
            ELSE Ok(DefaultBounds)

-----------------------------------------------------------------------------
(* BRDViewer: instancing of a placement's package shapes *)

FlipLayer_OneWay(layer) ==
    CASE layer = 1 -> 16 [] layer = 16 -> 1
      [] layer = 21 -> 22 [] layer = 22 -> 21
      [] layer = 25 -> 26 [] layer = 26 -> 25
      [] layer = 29 -> 30
      [] OTHER -> layer

FlipLayer(layer) ==
    CASE layer = 1 -> 16 [] layer = 16 -> 1
      [] layer = 21 -> 22 [] layer = 22 -> 21
      [] layer = 25 -> 26 [] layer = 26 -> 25
      [] layer = 29 -> 30 [] layer = 30 -> 29
      [] OTHER -> layer

\* rx = x if not mirror else -x; rotate by angle; add the element position
DrawPoint(e, angle, mirror, x, y) ==
    LET rx == IF ~mirror THEN x ELSE -x
        ry == y
        rx_rot == rx * Cos(angle) - ry * Sin(angle)
        ry_rot == rx * Sin(angle) + ry * Cos(angle)
    IN <<e.x + rx_rot, e.y + ry_rot>>

\* The four points of the polygon the Rect branch hands to the canvas, in world
\* coordinates (before world_to_screen)
DrawRectPoints(e, angle, mirror, shape) ==
    LET x1 == IF ~mirror THEN shape.x1 ELSE -shape.x1
        y1 == shape.y1
        x2 == IF ~mirror THEN shape.x2 ELSE -shape.x2
        y2 == shape.y2
        x_min == Min2(x1, x2)
        x_max == Max2(x1, x2)
        y_min == Min2(y1, y2)
        y_max == Max2(y1, y2)
        cx == Half(x_min + x_max)
        cy == Half(y_min + y_max)
        points_rel == <<<<x_min - cx, y_min - cy>>, <<x_min - cx, y_max - cy>>,
                        <<x_max - cx, y_min - cy>>, <<x_max - cx, y_max - cy>>>>
    IN [i \in 1..4 |->
          <<e.x + (points_rel[i][1] * Cos(angle) - points_rel[i][2] * Sin(angle)),
            e.y + (points_rel[i][1] * Sin(angle) + points_rel[i][2] * Cos(angle))>>]

\* The object one package shape is turned into, whether or not its layer is visible
TransformShape(e, shape) ==
    LET rot == ParseRot(e.rot).v
        angle == rot
        mirror == Contains(e.rot, "M")
        shape_layer == IF mirror THEN FlipLayer(shape.layer) ELSE shape.layer
        shape_rot == IF shape.type \in {"Rect", "Pad", "SMD"}
                     THEN shape.rot + (IF ~mirror THEN rot ELSE -rot)
                     ELSE 0
    IN CASE shape.type = "Wire" ->
              LET p1 == DrawPoint(e, angle, mirror, shape.x1, shape.y1)
                  p2 == DrawPoint(e, angle, mirror, shape.x2, shape.y2)
              IN [type |-> "Wire", x1 |-> p1[1], y1 |-> p1[2], x2 |-> p2[1], y2 |-> p2[2],
                  width |-> shape.width, layer |-> shape_layer, kind |-> "plain", net |-> ""]
         [] shape.type = "Circle" ->
              LET p == DrawPoint(e, angle, mirror, shape.x, shape.y)
              IN [type |-> "Circle", x |-> p[1], y |-> p[2], radius |-> shape.radius,
                  width |-> shape.width, layer |-> shape_layer]
         [] shape.type = "Rect" ->
              [type |-> "RectPoly", points |-> DrawRectPoints(e, angle, mirror, shape),
               layer |-> shape_layer, rot |-> shape_rot]
         [] shape.type = "Polygon" ->
              [type |-> "Polygon",
               vertices |-> [i \in Indices(shape.vertices) |->
                               DrawPoint(e, angle, mirror, shape.vertices[i][1],
                                         shape.vertices[i][2])],
               layer |-> shape_layer, width |-> shape.width, net |-> shape.net,
               fill |-> shape.fill, is_outline |-> shape.is_outline]
         [] shape.type = "Pad" ->
              LET p == DrawPoint(e, angle, mirror, shape.x, shape.y)
              IN [shape EXCEPT !.x = p[1], !.y = p[2], !.layer = shape_layer,
                               !.rot = shape_rot]
         [] shape.type = "SMD" ->
              LET p == DrawPoint(e, angle, mirror, shape.x, shape.y)
              IN [shape EXCEPT !.x = p[1], !.y = p[2], !.layer = shape_layer,
                               !.rot = shape_rot]

DrawElementShapes_VisibleByPackageLayer(packages, e, visible_layers) ==
    LET package_shapes == MapGet(packages, e.package, <<>>)
        Visible(s) == s.layer \in visible_layers
        shown == SelectSeq(package_shapes, Visible)
    IN IF ParseRot(e.rot).ok
       THEN [i \in Indices(shown) |-> TransformShape(e, shown[i])]
       ELSE <<>>

\* _draw_element_shapes: the instanced shapes drawn for element e, in order
DrawElementShapes(packages, e, visible_layers) ==
    LET package_shapes == MapGet(packages, e.package, <<>>)
        all == [i \in Indices(package_shapes) |-> TransformShape(e, package_shapes[i])]
        Visible(s) == s.layer \in visible_layers
    IN \* a descriptor _parse_rot rejects raises before anything is drawn
       IF ParseRot(e.rot).ok THEN SelectSeq(all, Visible) ELSE <<>>

-----------------------------------------------------------------------------
(* The XML elements a document is made of *)

WireEl(x1, y1, x2, y2, width, layer) ==
    [tag |-> "wire", x1 |-> x1, y1 |-> y1, x2 |-> x2, y2 |-> y2, width |-> width,
     layer |-> layer]

WireEls ==
    {WireEl(Num(0), Num(0), Num(Mm(4)), Num(Mm(2)), Absent, Num(1)),
     WireEl(Num(Mm(-2)), Num(Mm(1)), Num(Mm(3)), Num(Mm(-1)), Num(20), Num(21)),
     WireEl(Bad, Num(0), Num(Mm(1)), Num(Mm(1)), Absent, Num(1))}

ViaEl(x, y, drill, diameter, extent) ==
    [tag |-> "via", x |-> x, y |-> y, drill |-> drill, diameter |-> diameter,
     extent |-> extent]

ViaEls ==
    {ViaEl(Num(Mm(5)), Num(Mm(5)), Num(30), Absent, Txt("1-16")),
     ViaEl(Num(Mm(1)), Num(Mm(1)), Bad, Num(60), NoTxt)}

PadEl(name, x, y, drill, diameter, shape, rot) ==
    [tag |-> "pad", name |-> Txt(name), x |-> x, y |-> y, drill |-> drill,
     diameter |-> diameter, shape |-> shape, layer |-> Absent, rot |-> rot]

PadEls ==
    {PadEl("1", Num(Mm(2)), Num(Mm(1)), Num(80), Num(150), NoTxt, NoStr),
     PadEl("2", Num(Mm(-1)), Num(Mm(3)), Num(80), Num(150), Txt("square"),
           Str(<<"R", "9", "0">>)),
     PadEl("3", Num(Mm(1)), Num(Mm(1)), Num(80), Num(150), NoTxt,
           Str(<<"M", "R", "9", "0">>)),
     PadEl("4", Num(Mm(1)), Bad, Num(80), Num(150), NoTxt, NoStr)}

SmdEl(name, x, y, dx, dy, layer, rot) ==
    [tag |-> "smd", name |-> Txt(name), x |-> x, y |-> y, dx |-> dx, dy |-> dy,
     layer |-> layer, roundness |-> Absent, rot |-> rot]

SmdEls ==
    {SmdEl("1", Num(Mm(1)), Num(Mm(-2)), Num(100), Num(60), Num(1), NoStr),
     SmdEl("2", Num(Mm(-3)), Num(0), Num(100), Num(60), Num(16),
           Str(<<"R", "1", "8", "0">>)),
     SmdEl("3", Num(Mm(1)), Num(Mm(1)), Bad, Num(60), Num(1), NoStr)}

CircleEl(x, y, radius, layer) ==
    [tag |-> "circle", x |-> x, y |-> y, radius |-> radius, width |-> Absent,
     layer |-> layer]

CircleEls ==
    {CircleEl(Num(Mm(1)), Num(Mm(2)), Num(Mm(1)), Num(21)),
     CircleEl(Num(Mm(1)), Num(Mm(1)), Bad, Num(21))}

RectEl(x1, y1, x2, y2, layer, rot) ==
    [tag |-> "rectangle", x1 |-> x1, y1 |-> y1, x2 |-> x2, y2 |-> y2, layer |-> layer,
     rot |-> rot]

RectEls ==
    {RectEl(Num(Mm(-1)), Num(Mm(-2)), Num(Mm(1)), Num(Mm(2)), Num(21), NoStr),
     RectEl(Num(Mm(2)), Num(0), Num(Mm(4)), Num(Mm(2)), Num(1), Str(<<"R", "9", "0">>)),
     RectEl(Num(0), Num(0), Bad, Num(Mm(1)), Num(21), NoStr)}

Vertex(x, y) == [tag |-> "vertex", x |-> x, y |-> y]

PolygonEl(layer, vertices) ==
    [tag |-> "polygon", layer |-> layer, width |-> Absent, vertices |-> vertices]

PolygonEls ==
    {PolygonEl(Num(1), <<Vertex(Num(0), Num(0)), Vertex(Num(Mm(4)), Num(0)),
                         Vertex(Num(0), Num(Mm(3)))>>),
     PolygonEl(Num(OUTLINE_LAYER),
               <<Vertex(Num(Mm(-6)), Num(Mm(-6))), Vertex(Num(Mm(6)), Num(Mm(-6))),
                 Vertex(Num(Mm(6)), Num(Mm(6))), Vertex(Num(Mm(-6)), Num(Mm(6)))>>),
     PolygonEl(Num(1), <<Vertex(Num(0), Num(0)), Vertex(Num(Mm(7)), Num(Mm(7)))>>),
     PolygonEl(Num(1), <<>>),
     PolygonEl(Num(1), <<Vertex(Num(0), Num(0)), Vertex(Bad, Num(0)),
                         Vertex(Num(0), Num(Mm(3)))>>)}

TextEl(x, y, layer, rot, text) ==
    [tag |-> "text", x |-> x, y |-> y, layer |-> layer, size |-> Absent, rot |-> rot,
     text |-> text]

TextEls ==
    {TextEl(Num(Mm(1)), Num(Mm(1)), Num(21), NoStr, "T"),
     TextEl(Bad, Num(Mm(1)), Num(21), NoStr, "U")}

LayerEl(number, name, color, visible) ==
    [tag |-> "layer", number |-> number, name |-> name, color |-> color,
     visible |-> visible, active |-> NoTxt]

LayerEls ==
    {LayerEl(Num(1), Txt("Top"), Num(4), NoTxt),
     LayerEl(Num(16), Txt("Bottom"), Num(1), Txt("no")),
     LayerEl(Num(1), NoTxt, Absent, Txt("no")),
     LayerEl(Bad, Txt("X"), Num(2), NoTxt),
     LayerEl(Num(16), Txt("Y"), Bad, NoTxt)}

\* The rotation descriptors of the placements of the model
RotStrings ==
    {<<>>, <<"R", "9", "0">>, <<"R", "1", "8", "0">>, <<"M", "R", "0">>,
     <<"M", "R", "9", "0">>, <<"M", "R", "2", "7", "0">>, <<"M">>,
     <<"R">>, <<"S", "R", "9", "0">>, <<"a", "b", "c">>}

ElementEl(name, package, x, y, rot) ==
    [tag |-> "element", name |-> Txt(name), value |-> Txt("10k"), library |-> Txt("lib"),
     package |-> Txt(package), x |-> x, y |-> y, rot |-> rot]

ElementEls ==
    {ElementEl("U1", "P1", Num(Mm(10)), Num(Mm(5)), IF r = <<>> THEN NoStr ELSE Str(r)) :
        r \in RotStrings}
    \cup {ElementEl("R1", "SMD0603", Num(Mm(-3)), Num(Mm(8)), Str(<<"R", "9", "0">>)),
          ElementEl("R2", "P2", Absent, Absent, Str(<<"M", "R", "1", "8", "0">>)),
          ElementEl("R3", "P1", Num(Mm(1)), Bad, NoStr)}

PackageNames == {"P1", "P2"}

\* Net names, in the order sorted() puts them
NetNames == <<"", "GND", "VCC">>

SignalNames == {NetNames[i] : i \in Indices(NetNames)}

-----------------------------------------------------------------------------
(* BRDViewer: the net list *)

BoardNets_KeepsEmpty(b) ==
    {b.wires[i].net : i \in Indices(b.wires)}
    \cup {b.vias[i].net : i \in {j \in Indices(b.vias) : b.vias[j].net # ""}}
    \cup {b.polygons[i].net : i \in {j \in Indices(b.polygons) : b.polygons[j].net # ""}}

\* The set `nets` built by _populate_nets
BoardNets(b) ==
    {b.wires[i].net : i \in {j \in Indices(b.wires) : b.wires[j].net # ""}}
    \cup {b.vias[i].net : i \in {j \in Indices(b.vias) : b.vias[j].net # ""}}
    \cup {b.polygons[i].net : i \in {j \in Indices(b.polygons) : b.polygons[j].net # ""}}

\* sorted(nets)
Sorted(nets) == LET In(x) == x \in nets IN SelectSeq(NetNames, In)

\* _populate_nets: the rows of the net list box
PopulateNets(b) == Sorted(BoardNets(b))

\* _populate_layers: one check box per layer, set to the layer's visible flag
PopulateLayers(b) == [num \in DOMAIN b.layers |-> b.layers[num].visible]

\* redraw: the visible layers, and the package shapes drawn for each placement
VisibleLayers(checks) == {num \in DOMAIN checks : checks[num]}

Redraw(b, checks) ==
    [i \in Indices(b.elements) |->
        DrawElementShapes(b.packages, b.elements[i], VisibleLayers(checks))]

-----------------------------------------------------------------------------
(* BRDViewer: the component list, the search entries and the selections *)

\* The characters of the names, values, package names and net names of the model
Chars(s) ==
    CASE s = "U1" -> <<"U", "1">> [] s = "U2" -> <<"U", "2">> [] s = "U3" -> <<"U", "3">>
      [] s = "U4" -> <<"U", "4">> [] s = "U5" -> <<"U", "5">>
      [] s = "R1" -> <<"R", "1">> [] s = "R2" -> <<"R", "2">> [] s = "R3" -> <<"R", "3">>
      [] s = "10k" -> <<"1", "0", "k">>
      [] s = "P1" -> <<"P", "1">> [] s = "P2" -> <<"P", "2">>
      [] s = "SMD0603" -> <<"S", "M", "D", "0", "6", "0", "3">>
      [] s = "GND" -> <<"G", "N", "D">> [] s = "VCC" -> <<"V", "C", "C">>
      [] OTHER -> <<>>

\* str.lower, for the letters of the model
LowerChar(c) ==
    CASE c = "U" -> "u" [] c = "R" -> "r" [] c = "P" -> "p" [] c = "S" -> "s"
      [] c = "M" -> "m" [] c = "D" -> "d" [] c = "G" -> "g" [] c = "N" -> "n"
      [] c = "V" -> "v" [] c = "C" -> "c" [] c = "K" -> "k"
      [] OTHER -> c

Lower(s) == [i \in Indices(s) |-> LowerChar(s[i])]

\* str.strip
RECURSIVE RStrip(_, _)
RStrip(s, c) ==
    IF s # <<>> /\ s[Len(s)] = c THEN RStrip(SubSeq(s, 1, Len(s) - 1), c) ELSE s

Strip(s) == RStrip(LStrip(s, " "), " ")

\* q in s
IsSubstring(q, s) ==
    \E i \in 0..(Len(s) - Len(q)) : SubSeq(s, i + 1, i + Len(q)) = q

\* self.search_var.get().strip().lower()
Query(var) == Lower(Strip(var))

\* not q or q in e.name.lower() or q in e.value.lower() or q in e.package.lower()
MatchesElement(q, e) ==
    \/ q = <<>>
    \/ IsSubstring(q, Lower(Chars(e.name)))
    \/ IsSubstring(q, Lower(Chars(e.value)))
    \/ IsSubstring(q, Lower(Chars(e.package)))

\* [e for e in self.board.elements if ...]
FilteredElements(b, q) ==
    LET Match(e) == MatchesElement(q, e) IN SelectSeq(b.elements, Match)

\* The row of the component list for an element: its name, value and position
ComponentLabel(e) == [name |-> e.name, value |-> e.value, x |-> e.x, y |-> e.y]

\* _populate_components
PopulateComponents(b) == [i \in Indices(b.elements) |-> ComponentLabel(b.elements[i])]

\* _on_search: the rows of the component list
SearchRows(b, q) ==
    LET f == FilteredElements(b, q) IN [i \in Indices(f) |-> ComponentLabel(f[i])]

\* not q or q in net.lower()
MatchesNet(q, net) == q = <<>> \/ IsSubstring(q, Lower(Chars(net)))

\* [n for n in sorted(nets) if not q or q in n.lower()]
FilteredNets(b, q) ==
    LET Match(net) == MatchesNet(q, net) IN SelectSeq(Sorted(BoardNets(b)), Match)

-----------------------------------------------------------------------------
(* BRDViewer: the view.  scale is kept in hundredths (5.0 -> 500), offsets   *)
(* in whole pixels; a quotient is rounded down.                              *)

\* max(self.canvas.winfo_width(), 100), max(self.canvas.winfo_height(), 100)
CanvasSize == [cw |-> 900, ch |-> 700]

\* scale, offset_x, offset_y after __init__ and after reset_view
InitialView == [scale |-> 500, offset_x |-> 100, offset_y |-> 100]

\* fit_to_view
FitToView(v, b) ==
    IF b.bounds = <<>> THEN v
    ELSE LET minx == b.bounds[1]
             miny == b.bounds[2]
             maxx == b.bounds[3]
             maxy == b.bounds[4]
             w == maxx - minx
             h == maxy - miny
             cw == CanvasSize.cw
             ch == CanvasSize.ch
             pad == 40
         IN IF w <= 0 \/ h <= 0 THEN v
            ELSE LET sx == ((cw - 2 * pad) * 10000) \div w
                     sy == ((ch - 2 * pad) * 10000) \div h
                     scale == Max2(10, Min2(sx, sy))
                 IN [scale |-> scale,
                     offset_x |-> (cw \div 2) - ((minx + maxx) * scale) \div 20000,
                     offset_y |-> (ch \div 2) + ((miny + maxy) * scale) \div 20000]

\* screen_to_world, in 0.01 mm; the division raises at scale 0
ScreenToWorld(v, sx, sy) ==
    IF v.scale = 0 THEN Raise
    ELSE Ok(<<((sx - v.offset_x) * 10000) \div v.scale,
              0 - (((sy - v.offset_y) * 10000) \div v.scale)>>)

\* _zoom_to_point, target_pixels = 40
ZoomToPoint(v, x, y) ==
    LET clamped == Max2(10, Min2(v.scale, 100000))
        scale == IF clamped < 4000 THEN 4000 ELSE clamped
    IN [scale |-> scale,
        offset_x |-> (CanvasSize.cw \div 2) - (x * scale) \div 10000,
        offset_y |-> (CanvasSize.ch \div 2) + (y * scale) \div 10000]

\* _on_mouse_wheel with the pointer at (ex, ey); up is delta > 0
MouseWheel(v, up, ex, ey) ==
    LET zoomed == IF up THEN (v.scale * 11) \div 10 ELSE (v.scale * 9) \div 10
        scale == Max2(5, Min2(zoomed, 20000))
    IN [scale |-> scale,
        offset_x |-> v.offset_x + (ex - v.offset_x) - ((ex - v.offset_x) * scale) \div v.scale,
        offset_y |-> v.offset_y + (ey - v.offset_y) - ((ey - v.offset_y) * scale) \div v.scale]

\* _on_mid_down followed by _on_mid_drag: the offsets move by the drag
Drag(v, dx, dy) == [v EXCEPT !.offset_x = @ + dx, !.offset_y = @ + dy]

-----------------------------------------------------------------------------
(* BRDViewer: export.  The image holds the Board's own shapes on visible    *)
(* layers, every via and a marker per placement.                            *)

ExportImage(b, checks) ==
    LET Vis(s) == s.layer \in VisibleLayers(checks)
    IN [polygons |-> SelectSeq(b.polygons, Vis),
        wires |-> SelectSeq(b.wires, Vis),
        pads |-> SelectSeq(b.pads, Vis),
        smds |-> SelectSeq(b.smds, Vis),
        vias |-> b.vias,
        texts |-> SelectSeq(b.texts, Vis),
        markers |-> [i \in Indices(b.elements) |-> <<b.elements[i].x, b.elements[i].y>>]]

-----------------------------------------------------------------------------
(* The state machine: open_brd calls EagleParser(path).parse(), which reads *)
(* the document loop by loop, and then takes the Board over.                *)

\* The findall() loops of parse, in the order the code runs them
LoopOrder ==
    <<"none", "layers", "packages", "pkg_wire", "pkg_pad", "pkg_smd", "pkg_circle",
      "pkg_rect", "pkg_polygon", "plain_wire", "plain_pad", "plain_smd", "plain_polygon",
      "plain_text", "elements", "signals", "sig_wire", "sig_via", "sig_polygon">>

Rank(l) == CHOOSE i \in Indices(LoopOrder) : LoopOrder[i] = l

\* Loop l of the top level can still be reached
CanEnter(l) == pc = "parse" /\ pkg = <<>> /\ Rank(sub) <= Rank(l) /\ n < MaxElems

\* Loop l of the package being read can still be reached
CanEnterPkg(l) == pc = "parse" /\ pkg # <<>> /\ Rank(sub) <= Rank(l) /\ n < MaxElems

\* Loop l of the signal being read can still be reached
CanEnterSig(l) == pc = "parse" /\ sig # <<>> /\ Rank(sub) <= Rank(l) /\ n < MaxElems

Read(l, el) == /\ sub' = l
               /\ n' = n + 1
               /\ last' = [loop |-> l, el |-> el]

viewer == <<v_board, layer_checks, net_list, canvas, comp_list, search_var, net_search_var,
           selected_element, selected_net, view, exported, events, ev, file_path,
           measure_mode, measure_points, drag_start>>

\* The measure tool and the drag in progress
pointer == <<measure_mode, measure_points, drag_start>>

\* What `ev` records of a handled event
Handled(name, at, dialog) == [name |-> name, at |-> at, dialog |-> dialog]

reparse == <<parsers, returned>>

flip == <<lyr, flipped, flips>>

Init ==
    /\ pc = "start"
    /\ containers = [xml |-> TRUE, drawing |-> TRUE, board |-> TRUE]
    /\ board = NewBoard
    /\ pkg = <<>>
    /\ sig = <<>>
    /\ sub = "none"
    /\ n = 0
    /\ last = [loop |-> "none", el |-> [tag |-> "none"]]
    /\ err = ""
    /\ v_board = <<>>
    /\ layer_checks = EmptyMap
    /\ net_list = <<>>
    /\ canvas = <<>>
    /\ comp_list = <<>>
    /\ search_var = <<>>
    /\ net_search_var = <<>>
    /\ selected_element = <<>>
    /\ selected_net = <<>>
    /\ view = InitialView
    /\ exported = <<>>
    /\ events = 0
    /\ ev = Handled("none", <<>>, "")
    /\ file_path = <<>>
    /\ measure_mode = FALSE
    /\ measure_points = <<>>
    /\ drag_start = <<>>
    /\ parsers = <<>>
    /\ returned = <<>>
    /\ lyr = 0
    /\ flipped = 0
    /\ flips = 0

StructuralError_NoBoardCheck(c) ==
    IF ~c.xml THEN "XML parse error"
    ELSE IF ~c.drawing THEN "missing <drawing>"
    ELSE ""

\* What parse raises before it reads anything, "" if nothing
StructuralError(c) ==
    IF ~c.xml THEN "XML parse error"
    ELSE IF ~c.drawing THEN "missing <drawing>"
    ELSE IF ~c.board THEN "missing <board>"
    ELSE ""

\* parse, up to the first _parse_ call
ParseBegin ==
    /\ pc = "start"
    /\ \E x \in BOOLEAN, d \in BOOLEAN, b \in BOOLEAN :
          /\ (~x => ~d) /\ (~d => ~b)
          /\ containers' = [xml |-> x, drawing |-> d, board |-> b]
    /\ err' = StructuralError(containers')
    /\ pc' = IF err' = "" THEN "parse" ELSE "raised"
    /\ UNCHANGED <<board, pkg, sig, sub, n, last, viewer, flip, reparse>>

ParseLayer ==
    /\ CanEnter("layers")
    /\ \E l \in LayerEls :
          /\ board' = AddLayerFromXml(board, l)
          /\ Read("layers", l)
    /\ UNCHANGED <<pc, containers, pkg, sig, err, viewer, flip, reparse>>

\* for pkg in packages.findall('package'): pkg_name = ...; shapes = []
BeginPackage ==
    /\ CanEnter("packages")
    /\ \E name \in PackageNames :
          /\ pkg' = <<[name |-> name, shapes |-> <<>>]>>
          /\ Read("packages", [tag |-> "package", name |-> name])
    /\ UNCHANGED <<pc, containers, board, sig, err, viewer, flip, reparse>>

\* shapes.append(obj) if the handler returned an object
PkgAppend(r) ==
    /\ board' = r.board
    /\ pkg' = IF r.obj # <<>>
              THEN <<[pkg[1] EXCEPT !.shapes = Append(@, r.obj[1])]>>
              ELSE pkg

PkgWire ==
    /\ CanEnterPkg("pkg_wire")
    /\ \E el \in WireEls : PkgAppend(AddWireFromXml(board, el, "package")) /\ Read("pkg_wire", el)
    /\ UNCHANGED <<pc, containers, sig, err, viewer, flip, reparse>>

PkgPad ==
    /\ CanEnterPkg("pkg_pad")
    /\ \E el \in PadEls : PkgAppend(AddPadFromXml(board, el)) /\ Read("pkg_pad", el)
    /\ UNCHANGED <<pc, containers, sig, err, viewer, flip, reparse>>

PkgSmd ==
    /\ CanEnterPkg("pkg_smd")
    /\ \E el \in SmdEls : PkgAppend(AddSmdFromXml(board, el)) /\ Read("pkg_smd", el)
    /\ UNCHANGED <<pc, containers, sig, err, viewer, flip, reparse>>

PkgCircle ==
    /\ CanEnterPkg("pkg_circle")
    /\ \E el \in CircleEls : PkgAppend(AddCircleFromXml(board, el)) /\ Read("pkg_circle", el)
    /\ UNCHANGED <<pc, containers, sig, err, viewer, flip, reparse>>

PkgRect ==
    /\ CanEnterPkg("pkg_rect")
    /\ \E el \in RectEls : PkgAppend(AddRectFromXml(board, el)) /\ Read("pkg_rect", el)
    /\ UNCHANGED <<pc, containers, sig, err, viewer, flip, reparse>>

PkgPolygon ==
    /\ CanEnterPkg("pkg_polygon")
    /\ \E el \in PolygonEls :
          PkgAppend(AddPolygonFromXml(board, el, "", TRUE)) /\ Read("pkg_polygon", el)
    /\ UNCHANGED <<pc, containers, sig, err, viewer, flip, reparse>>

\* self.board.packages[pkg_name] = shapes
EndPackage ==
    /\ pc = "parse"
    /\ pkg # <<>>
    /\ board' = [board EXCEPT !.packages = Put(@, pkg[1].name, pkg[1].shapes)]
    /\ pkg' = <<>>
    /\ sub' = "packages"
    /\ UNCHANGED <<pc, containers, sig, n, last, err, viewer, flip, reparse>>

PlainWire ==
    /\ CanEnter("plain_wire")
    /\ \E el \in WireEls : board' = AddWireFromXml(board, el, "plain").board /\ Read("plain_wire", el)
    /\ UNCHANGED <<pc, containers, pkg, sig, err, viewer, flip, reparse>>

PlainPad ==
    /\ CanEnter("plain_pad")
    /\ \E el \in PadEls : board' = AddPadFromXml(board, el).board /\ Read("plain_pad", el)
    /\ UNCHANGED <<pc, containers, pkg, sig, err, viewer, flip, reparse>>

PlainSmd ==
    /\ CanEnter("plain_smd")
    /\ \E el \in SmdEls : board' = AddSmdFromXml(board, el).board /\ Read("plain_smd", el)
    /\ UNCHANGED <<pc, containers, pkg, sig, err, viewer, flip, reparse>>

PlainPolygon ==
    /\ CanEnter("plain_polygon")
    /\ \E el \in PolygonEls :
          board' = AddPolygonFromXml(board, el, "", FALSE).board /\ Read("plain_polygon", el)
    /\ UNCHANGED <<pc, containers, pkg, sig, err, viewer, flip, reparse>>

PlainText ==
    /\ CanEnter("plain_text")
    /\ \E el \in TextEls : board' = AddTextFromXml(board, el).board /\ Read("plain_text", el)
    /\ UNCHANGED <<pc, containers, pkg, sig, err, viewer, flip, reparse>>

ParseElement ==
    /\ CanEnter("elements")
    /\ \E el \in ElementEls : board' = AddElementFromXml(board, el) /\ Read("elements", el)
    /\ UNCHANGED <<pc, containers, pkg, sig, err, viewer, flip, reparse>>

\* for s in signals.findall('signal'): name = s.get('name', '')
BeginSignal ==
    /\ CanEnter("sig_polygon")
    /\ \E name \in SignalNames :
          /\ sig' = <<name>>
          /\ n' = n + 1
          /\ last' = [loop |-> "signals", el |-> [tag |-> "signal", name |-> name]]
    /\ sub' = "signals"
    /\ UNCHANGED <<pc, containers, board, pkg, err, viewer, flip, reparse>>

SignalWireResult_RenamesEveryWire(b, el, name) ==
    LET r == AddWireFromXml(b, el, "signal")
    IN IF r.obj # <<>>
       THEN [r.board EXCEPT !.wires = [i \in Indices(@) |-> [@[i] EXCEPT !.net = name]]]
       ELSE r.board

\* w_obj = self._add_wire_from_xml(w, kind="signal"); if w_obj: w_obj.net = name
SignalWireResult(b, el, name) ==
    LET r == AddWireFromXml(b, el, "signal")
    IN IF r.obj # <<>>
       THEN [r.board EXCEPT !.wires[Len(r.board.wires)].net = name]
       ELSE r.board

SignalWire ==
    /\ CanEnterSig("sig_wire")
    /\ \E el \in WireEls : board' = SignalWireResult(board, el, sig[1]) /\ Read("sig_wire", el)
    /\ UNCHANGED <<pc, containers, pkg, sig, err, viewer, flip, reparse>>

SignalVia ==
    /\ CanEnterSig("sig_via")
    /\ \E el \in ViaEls : board' = AddViaFromXml(board, el, sig[1]).board /\ Read("sig_via", el)
    /\ UNCHANGED <<pc, containers, pkg, sig, err, viewer, flip, reparse>>

SignalPolygon ==
    /\ CanEnterSig("sig_polygon")
    /\ \E el \in PolygonEls :
          board' = AddPolygonFromXml(board, el, sig[1], FALSE).board /\ Read("sig_polygon", el)
    /\ UNCHANGED <<pc, containers, pkg, sig, err, viewer, flip, reparse>>

\* self._compute_bounds(); return self.board
ParseEnd ==
    /\ pc = "parse"
    /\ pkg = <<>>
    /\ LET r == ComputeBounds(board)
       IN IF r.ok
          THEN /\ board' = [board EXCEPT !.bounds = r.v]
               /\ pc' = "parsed"
               /\ err' = ""
          ELSE /\ board' = board
               /\ pc' = "raised"
               /\ err' = "ValueError"
    /\ UNCHANGED <<containers, pkg, sig, sub, n, last, viewer, flip, reparse>>

\* open_brd after parse returned: take the board over, fill the side bars, redraw
OpenBrdLoaded ==
    /\ pc = "parsed"
    /\ v_board' = <<board>>
    /\ layer_checks' = PopulateLayers(board)
    /\ comp_list' = PopulateComponents(board)
    /\ net_list' = PopulateNets(board)
    /\ view' = FitToView(view, board)
    /\ canvas' = Redraw(board, layer_checks')
    /\ file_path' = <<"board.brd">>
    /\ ev' = Handled("open_brd", <<>>, "")
    /\ pc' = "idle"
    /\ UNCHANGED <<containers, board, pkg, sig, sub, n, last, err, flip, reparse>>
    /\ UNCHANGED <<search_var, net_search_var, selected_element, selected_net, exported,
                   events, pointer>>

\* open_brd after parse raised: messagebox.showerror(...); return
OpenBrdFailed ==
    /\ pc = "raised"
    /\ pc' = "failed"
    /\ ev' = Handled("open_brd", <<>>, "Open failed")
    /\ UNCHANGED <<containers, board, pkg, sig, sub, n, last, err, flip, reparse>>
    /\ UNCHANGED <<v_board, layer_checks, net_list, canvas, comp_list, search_var,
                   net_search_var, selected_element, selected_net, view, exported, events,
                   file_path, pointer>>

Next ==
    \/ ParseBegin
    \/ ParseLayer
    \/ BeginPackage
    \/ PkgWire
    \/ PkgPad
    \/ PkgSmd
    \/ PkgCircle
    \/ PkgRect
    \/ PkgPolygon
    \/ EndPackage
    \/ PlainWire
    \/ PlainPad
    \/ PlainSmd
    \/ PlainPolygon
    \/ PlainText
    \/ ParseElement
    \/ BeginSignal
    \/ SignalWire
    \/ SignalVia
    \/ SignalPolygon
    \/ ParseEnd
    \/ OpenBrdLoaded
    \/ OpenBrdFailed

Spec == Init /\ [][Next]_vars

-----------------------------------------------------------------------------
(* _flip_layer as a function of its argument: a layer id is drawn, and the  *)
(* function is applied to its own result, as it is for a shape mirrored     *)
(* twice.                                                                   *)

parser == <<pc, containers, board, pkg, sig, sub, n, last, err>>

InitFlip ==
    /\ pc = "start"
    /\ containers = [xml |-> TRUE, drawing |-> TRUE, board |-> TRUE]
    /\ board = NewBoard
    /\ pkg = <<>>
    /\ sig = <<>>
    /\ sub = "none"
    /\ n = 0
    /\ last = [loop |-> "none", el |-> [tag |-> "none"]]
    /\ err = ""
    /\ v_board = <<>>
    /\ layer_checks = EmptyMap
    /\ net_list = <<>>
    /\ canvas = <<>>
    /\ comp_list = <<>>
    /\ search_var = <<>>
    /\ net_search_var = <<>>
    /\ selected_element = <<>>
    /\ selected_net = <<>>
    /\ view = InitialView
    /\ exported = <<>>
    /\ events = 0
    /\ ev = Handled("none", <<>>, "")
    /\ file_path = <<>>
    /\ measure_mode = FALSE
    /\ measure_points = <<>>
    /\ drag_start = <<>>
    /\ parsers = <<>>
    /\ returned = <<>>
    /\ lyr \in 0..MaxLayerId
    /\ flipped = lyr
    /\ flips = 0

Flip ==
    /\ flips < 2
    /\ flipped' = FlipLayer(flipped)
    /\ flips' = flips + 1
    /\ UNCHANGED <<lyr, parser, viewer, reparse>>

NextFlip == Flip

SpecFlip == InitFlip /\ [][NextFlip]_vars

-----------------------------------------------------------------------------
(* EagleParser.parse on a whole document.  A document is a record of its    *)
(* containers and of the elements of each section, in document order; ext   *)
(* is the extension of the file's name, and a package is listed with the    *)
(* name of the library that declares it.                                    *)

\* F(v), with v evaluated once however often F uses it
With(v, F(_)) == CHOOSE r \in {F(x) : x \in {v}} : TRUE

\* The elements of els with the given tag, in order: findall(tag)
FindAll(els, tag) == LET Is(el) == el.tag = tag IN SelectSeq(els, Is)

\* The handler of an element inside a package, the plain section or a signal
HandleShape(b, el, net, kind, in_package) ==
    CASE el.tag = "wire" ->
            IF kind = "signal"
            THEN [board |-> SignalWireResult(b, el, net), obj |-> <<>>]
            ELSE AddWireFromXml(b, el, kind)
      [] el.tag = "via" -> AddViaFromXml(b, el, net)
      [] el.tag = "pad" -> AddPadFromXml(b, el)
      [] el.tag = "smd" -> AddSmdFromXml(b, el)
      [] el.tag = "circle" -> AddCircleFromXml(b, el)
      [] el.tag = "rectangle" -> AddRectFromXml(b, el)
      [] el.tag = "polygon" -> AddPolygonFromXml(b, el, net, in_package)
      [] el.tag = "text" -> AddTextFromXml(b, el)

\* _parse_layers
RECURSIVE ParseLayers(_, _)
ParseLayers(b, ls) ==
    IF ls = <<>> THEN b
    ELSE LET Rest(nb) == ParseLayers(nb, Tail(ls)) IN With(AddLayerFromXml(b, Head(ls)), Rest)

\* The shape loops of one package: the board and the shapes list after them
RECURSIVE ParsePackageShapes(_, _, _)
ParsePackageShapes(b, els, shapes) ==
    IF els = <<>> THEN [board |-> b, shapes |-> shapes]
    ELSE LET Rest(r) == ParsePackageShapes(r.board, Tail(els),
                                           IF r.obj # <<>> THEN Append(shapes, r.obj[1])
                                           ELSE shapes)
         IN With(HandleShape(b, Head(els), "", "package", TRUE), Rest)

\* _parse_libraries
RECURSIVE ParseLibraries(_, _)
ParseLibraries(b, pkgs) ==
    IF pkgs = <<>> THEN b
    ELSE LET els == Head(pkgs).shapes
             ordered == FindAll(els, "wire") \o FindAll(els, "pad") \o FindAll(els, "smd")
                        \o FindAll(els, "circle") \o FindAll(els, "rectangle")
                        \o FindAll(els, "polygon")
             Rest(r) ==
                ParseLibraries([r.board EXCEPT !.packages = Put(@, Head(pkgs).name, r.shapes)],
                               Tail(pkgs))
         IN With(ParsePackageShapes(b, ordered, <<>>), Rest)

\* A sequence of handler calls whose results are not kept
RECURSIVE HandleAll(_, _, _, _)
HandleAll(b, els, net, kind) ==
    IF els = <<>> THEN b
    ELSE LET Rest(nb) == HandleAll(nb, Tail(els), net, kind)
         IN With(HandleShape(b, Head(els), net, kind, FALSE).board, Rest)

\* _parse_plain
ParsePlain(b, els) ==
    HandleAll(b, FindAll(els, "wire") \o FindAll(els, "pad") \o FindAll(els, "smd")
                 \o FindAll(els, "polygon") \o FindAll(els, "text"), "", "plain")

\* _parse_elements
RECURSIVE ParseElements(_, _)
ParseElements(b, els) ==
    IF els = <<>> THEN b
    ELSE LET Rest(nb) == ParseElements(nb, Tail(els))
         IN With(AddElementFromXml(b, Head(els)), Rest)

\* _parse_signals
RECURSIVE ParseSignals(_, _)
ParseSignals(b, sigs) ==
    IF sigs = <<>> THEN b
    ELSE LET els == Head(sigs).items
             ordered == FindAll(els, "wire") \o FindAll(els, "via") \o FindAll(els, "polygon")
             Rest(nb) == ParseSignals(nb, Tail(sigs))
         IN With(HandleAll(b, ordered, Head(sigs).name, "signal"), Rest)

\* parse, on the Board b the parser object holds: the Board after the call, and
\* whether the call returned it (ok) or raised (err)
ParseDocument(b, doc) ==
    LET e == StructuralError(doc.containers)
    IN IF e # "" THEN [ok |-> FALSE, board |-> b, err |-> e]
       ELSE LET Layers(b0) == ParseLayers(b0, doc.layers)
                Libraries(b1) == ParseLibraries(b1, doc.packages)
                Plain(b2) == ParsePlain(b2, doc.plain)
                Elements(b3) == ParseElements(b3, doc.elements)
                Signals(b4) == ParseSignals(b4, doc.signals)
                Bounds(read) ==
                    LET Result(bounds) ==
                           IF bounds.ok
                           THEN [ok |-> TRUE, board |-> [read EXCEPT !.bounds = bounds.v],
                                 err |-> ""]
                           ELSE [ok |-> FALSE, board |-> read, err |-> "ValueError"]
                    IN With(ComputeBounds(read), Result)
            IN With(With(With(With(With(With(b, Layers), Libraries), Plain), Elements),
                         Signals), Bounds)

AllContainers == [xml |-> TRUE, drawing |-> TRUE, board |-> TRUE]

\* A board with three layers, a package of every shape kind placed unmirrored
\* and mirrored, a placement of a missing package, and three signals
DocFull ==
    [containers |-> AllContainers, ext |-> "brd",
     layers |-> <<LayerEl(Num(1), Txt("Top"), Num(4), NoTxt),
                  LayerEl(Num(16), Txt("Bottom"), Num(1), Txt("no")),
                  LayerEl(Num(20), NoTxt, Absent, NoTxt)>>,
     packages |->
        <<[library |-> "lib", name |-> "P1",
           shapes |->
              <<WireEl(Num(0), Num(0), Num(Mm(4)), Num(Mm(2)), Absent, Num(1)),
                PadEl("2", Num(Mm(-1)), Num(Mm(3)), Num(80), Num(150), Txt("square"),
                      Str(<<"R", "9", "0">>)),
                SmdEl("2", Num(Mm(-3)), Num(0), Num(100), Num(60), Num(16),
                      Str(<<"R", "1", "8", "0">>)),
                CircleEl(Num(Mm(1)), Num(Mm(2)), Num(Mm(1)), Num(21)),
                RectEl(Num(Mm(2)), Num(0), Num(Mm(4)), Num(Mm(2)), Num(1),
                       Str(<<"R", "9", "0">>)),
                PolygonEl(Num(OUTLINE_LAYER),
                          <<Vertex(Num(Mm(-6)), Num(Mm(-6))), Vertex(Num(Mm(6)), Num(Mm(-6))),
                            Vertex(Num(Mm(6)), Num(Mm(6))), Vertex(Num(Mm(-6)), Num(Mm(6)))>>)>>]>>,
     plain |-> <<WireEl(Num(Mm(-2)), Num(Mm(1)), Num(Mm(3)), Num(Mm(-1)), Num(20), Num(21)),
                 TextEl(Num(Mm(1)), Num(Mm(1)), Num(21), NoStr, "T")>>,
     elements |-> <<ElementEl("U1", "P1", Num(Mm(10)), Num(Mm(5)), NoStr),
                    ElementEl("U2", "P1", Num(Mm(-20)), Num(Mm(5)),
                              Str(<<"M", "R", "9", "0">>)),
                    ElementEl("R1", "SMD0603", Num(Mm(-3)), Num(Mm(8)),
                              Str(<<"R", "9", "0">>))>>,
     signals |->
        <<[name |-> "GND",
           items |-> <<WireEl(Num(0), Num(0), Num(Mm(4)), Num(Mm(2)), Absent, Num(1)),
                       ViaEl(Num(Mm(5)), Num(Mm(5)), Num(30), Absent, Txt("1-16"))>>],
          [name |-> "VCC",
           items |-> <<PolygonEl(Num(1), <<Vertex(Num(0), Num(0)), Vertex(Num(Mm(4)), Num(0)),
                                           Vertex(Num(0), Num(Mm(3)))>>)>>],
          [name |-> "",
           items |-> <<WireEl(Num(Mm(-2)), Num(Mm(1)), Num(Mm(3)), Num(Mm(-1)), Num(20),
                              Num(21))>>]>>]

\* A board without layers: one package, its placement, one signal polygon
DocSmall ==
    [containers |-> AllContainers, ext |-> "brd",
     layers |-> <<>>,
     packages |->
        <<[library |-> "lib", name |-> "P2",
           shapes |-> <<RectEl(Num(Mm(-1)), Num(Mm(-2)), Num(Mm(1)), Num(Mm(2)), Num(21), NoStr),
                        PadEl("1", Num(Mm(2)), Num(Mm(1)), Num(80), Num(150), NoTxt, NoStr)>>]>>,
     plain |-> <<>>,
     elements |-> <<ElementEl("R2", "P2", Absent, Absent, Str(<<"M", "R", "1", "8", "0">>))>>,
     signals |->
        <<[name |-> "GND",
           items |-> <<PolygonEl(Num(OUTLINE_LAYER),
                          <<Vertex(Num(Mm(-6)), Num(Mm(-6))), Vertex(Num(Mm(6)), Num(Mm(-6))),
                            Vertex(Num(Mm(6)), Num(Mm(6))), Vertex(Num(Mm(-6)), Num(Mm(6)))>>)>>]>>]

\* A board with the containers and nothing in them
DocEmpty ==
    [containers |-> AllContainers, ext |-> "brd", layers |-> <<>>, packages |-> <<>>,
     plain |-> <<>>,
     elements |-> <<>>, signals |-> <<>>]

\* A board whose only placement has a descriptor _parse_rot rejects
DocBadRot ==
    [DocEmpty EXCEPT !.elements =
        <<ElementEl("U1", "P1", Num(Mm(10)), Num(Mm(5)), Str(<<"a", "b", "c">>))>>]

\* A file without the board container
DocNoBoard == [DocEmpty EXCEPT !.containers = [xml |-> TRUE, drawing |-> TRUE, board |-> FALSE]]

\* A board with two libraries that each declare a package P1, and a placement
\* of each
DocTwoLibs ==
    [DocEmpty EXCEPT
        !.layers = <<LayerEl(Num(21), Txt("tPlace"), Num(7), NoTxt)>>,
        !.packages =
           <<[library |-> "lib", name |-> "P1",
              shapes |-> <<WireEl(Num(0), Num(0), Num(Mm(4)), Num(Mm(2)), Absent, Num(21))>>],
             [library |-> "lib2", name |-> "P1",
              shapes |-> <<CircleEl(Num(Mm(1)), Num(Mm(2)), Num(Mm(1)), Num(21))>>]>>,
        !.elements =
           <<ElementEl("U1", "P1", Num(Mm(10)), Num(Mm(5)), NoStr),
             [ElementEl("U3", "P1", Num(Mm(-3)), Num(Mm(8)), NoStr)
                 EXCEPT !.library = Txt("lib2")]>>]

\* A binary Altium file
DocAltium ==
    [DocEmpty EXCEPT !.containers = [xml |-> FALSE, drawing |-> FALSE, board |-> FALSE],
                     !.ext = "pcbdoc"]

\* The files a parser is constructed on
Docs == {DocFull, DocSmall, DocEmpty, DocBadRot, DocNoBoard, DocTwoLibs, DocAltium}

-----------------------------------------------------------------------------
(* parse, called on parser objects: EagleParser(path) makes the parser's    *)
(* Board, and every call of parse works on that Board and returns it.       *)

\* Bound on the number of parser objects constructed
MaxParsers == 2

\* Bound on the number of calls of parse on one parser object
MaxCalls == 2

\* EagleParser(path)
NewParser ==
    /\ Len(parsers) < MaxParsers
    /\ \E doc \in Docs :
          parsers' = Append(parsers, [path |-> doc, board |-> NewBoard, calls |-> 0])
    /\ UNCHANGED <<returned, parser, viewer, flip>>

\* parser.parse(), on the parser constructed last
ParseCall ==
    /\ parsers # <<>>
    /\ \E i \in {Len(parsers)}, r \in {ParseDocument(parsers[Len(parsers)].board,
                                                   parsers[Len(parsers)].path)} :
          /\ parsers[i].calls < MaxCalls
          /\ parsers' = [parsers EXCEPT ![i].board = r.board, ![i].calls = @ + 1]
          /\ returned' = IF r.ok THEN Append(returned, [ref |-> i, board |-> r.board])
                         ELSE returned
    /\ UNCHANGED <<parser, viewer, flip>>

NextReparse == NewParser \/ ParseCall

SpecReparse == Init /\ [][NextReparse]_vars

-----------------------------------------------------------------------------
(* The viewer as its user drives it: every action is one event handler of   *)
(* BRDViewer, run to completion.                                            *)

\* Bound on the number of events handled
MaxEvents == 3

\* The texts typed into the component search entry and the net search entry
SearchTexts == {<<>>, <<" ", "U">>, <<"R", "1">>, <<"z">>}
NetSearchTexts == {<<>>, <<"g">>, <<"V", "C">>}

\* Where the pointer is when the wheel turns, and by how much a drag moves
PointerAt == <<450, 350>>
DragBy == <<30, -20>>

RedrawViewer_InPlace(vb, checks) ==
    IF vb = <<>> THEN [v_board |-> vb, canvas |-> <<>>]
    ELSE LET b == vb[1]
             Moved(e) == [k \in Indices(MapGet(b.packages, e.package, <<>>)) |->
                            TransformShape(e, b.packages[e.package][k])]
             last_e == b.elements[Len(b.elements)]
         IN [v_board |-> IF b.elements # <<>> /\ last_e.package \in DOMAIN b.packages
                         THEN <<[b EXCEPT !.packages[last_e.package] = Moved(last_e)]>>
                         ELSE vb,
             canvas |-> Redraw(b, checks)]

\* redraw: self.board after the call, and the package shapes drawn
RedrawViewer(vb, checks) ==
    IF vb = <<>> THEN [v_board |-> vb, canvas |-> <<>>]
    ELSE [v_board |-> vb, canvas |-> Redraw(vb[1], checks)]

\* redraw under the view v: after canvas.delete('all'), _draw_grid converts the
\* canvas corners with screen_to_world, which raises ZeroDivisionError at scale 0
RedrawAt(v, vb, checks) ==
    IF vb # <<>> /\ v.scale = 0 THEN [v_board |-> vb, canvas |-> <<>>]
    ELSE RedrawViewer(vb, checks)

\* What the try block of an open did when no parser was asked for anything
NoOpen == [ok |-> TRUE, board |-> NewBoard, err |-> "", constructed |-> FALSE]

OpenResult_KeepsPartialBoard(doc) ==
    IF doc.ext # "brd"
    THEN [ok |-> TRUE, board |-> NewBoard, err |-> "RuntimeError", constructed |-> FALSE]
    ELSE LET Made(r) == [ok |-> TRUE, board |-> r.board, err |-> r.err, constructed |-> TRUE]
         IN With(ParseDocument(NewBoard, doc), Made)

\* The try block of open_brd: whether a parser was constructed, and what its
\* parse returned or raised.  KicadParser is not a name of the module.
OpenResult(doc) ==
    CASE doc.ext = "brd" ->
            LET Made(r) == [ok |-> r.ok, board |-> r.board, err |-> r.err,
                            constructed |-> TRUE]
            IN With(ParseDocument(NewBoard, doc), Made)
      [] doc.ext = "kicad_pcb" ->
            [ok |-> FALSE, board |-> NewBoard, err |-> "NameError", constructed |-> FALSE]
      [] OTHER ->
            [ok |-> FALSE, board |-> NewBoard, err |-> "RuntimeError", constructed |-> FALSE]

\* The try block of load_project that opens the project's board file: every
\* name but *.kicad_pcb goes to EagleParser
ProjectOpenResult(doc) ==
    IF doc.ext = "kicad_pcb"
    THEN [ok |-> FALSE, board |-> NewBoard, err |-> "NameError", constructed |-> FALSE]
    ELSE LET Made(r) == [ok |-> r.ok, board |-> r.board, err |-> r.err, constructed |-> TRUE]
         IN With(ParseDocument(NewBoard, doc), Made)

\* A project file: the keys of its JSON object, <<>> for a key it does not have
Project(file, scale, offset_x, offset_y, vis, search, net_search) ==
    [readable |-> TRUE, file |-> file, scale |-> scale, offset_x |-> offset_x,
     offset_y |-> offset_y, vis |-> vis, search |-> search, net_search |-> net_search]

\* The project files of the model: one that json.load rejects, a view of the
\* board that is open, a view with scale 0, and two that name a board file
Projects ==
    {[readable |-> FALSE],
     Project(<<>>, <<250>>, <<0>>, <<700>>, [k \in {1} |-> FALSE], <<"R", "1">>, <<>>),
     Project(<<>>, <<0>>, <<>>, <<>>, EmptyMap, <<>>, <<>>),
     Project(<<DocSmall>>, <<>>, <<>>, <<>>, EmptyMap, <<"z">>, <<"g">>),
     Project(<<DocNoBoard>>, <<250>>, <<0>>, <<0>>, EmptyMap, <<"z">>, <<>>)}

\* data.get(key, default)
Opt(a, d) == IF a = <<>> THEN d ELSE a[1]

\* Where the canvas is clicked
ClickPoints == {<<450, 350>>, <<100, 100>>}

\* self.measure_points[-2:] when the list has more than two points
LastTwo(s) == IF Len(s) > 2 THEN SubSeq(s, Len(s) - 1, Len(s)) ELSE s

Event == events < MaxEvents /\ events' = events + 1

\* open_brd, the whole handler: a parser on the chosen file, parse, and on
\* success the take-over of the Board
OpenBrd ==
    /\ Event
    /\ \E doc \in Docs :
          \E r \in {OpenResult(doc)} :
             /\ parsers' = IF r.constructed
                           THEN Append(parsers, [path |-> doc, board |-> r.board, calls |-> 1])
                           ELSE parsers
             /\ ev' = Handled("open_brd", <<>>, IF r.err # "" THEN "Open failed" ELSE "")
             /\ IF r.ok
                THEN /\ returned' = Append(returned, [ref |-> Len(parsers'), board |-> r.board])
                     /\ file_path' = <<doc>>
                     /\ layer_checks' = PopulateLayers(r.board)
                     /\ comp_list' = PopulateComponents(r.board)
                     /\ net_list' = PopulateNets(r.board)
                     /\ view' = FitToView(view, r.board)
                     /\ v_board' = RedrawAt(view', <<r.board>>, layer_checks').v_board
                     /\ canvas' = RedrawAt(view', <<r.board>>, layer_checks').canvas
                ELSE UNCHANGED <<returned, file_path, layer_checks, comp_list, net_list, view,
                                 v_board, canvas>>
    /\ UNCHANGED <<search_var, net_search_var, selected_element, selected_net, exported,
                   pointer>>
    /\ UNCHANGED <<parser, flip>>

\* load_project, the whole handler
LoadProject ==
    /\ Event
    /\ \E proj \in Projects :
          IF ~proj.readable
          THEN /\ ev' = Handled("load_project", <<>>, "Load failed")
               /\ UNCHANGED <<v_board, file_path, layer_checks, comp_list, net_list, canvas,
                              search_var, net_search_var, view, reparse>>
          ELSE LET must_open == proj.file # <<>> /\ file_path # proj.file
               IN \E r \in {IF must_open THEN ProjectOpenResult(proj.file[1]) ELSE NoOpen} :
                     /\ parsers' = IF r.constructed
                                   THEN Append(parsers, [path |-> proj.file[1],
                                                         board |-> r.board, calls |-> 1])
                                   ELSE parsers
                     /\ IF ~r.ok
                        THEN /\ ev' = Handled("load_project", <<>>, "Open failed")
                             /\ UNCHANGED <<returned, v_board, file_path, layer_checks,
                                            comp_list, net_list, canvas, search_var,
                                            net_search_var, view>>
                        ELSE LET nb == IF must_open THEN <<r.board>> ELSE v_board
                                 populated == IF must_open THEN PopulateLayers(r.board)
                                              ELSE layer_checks
                             IN /\ ev' = Handled("load_project", <<>>, "")
                                /\ returned' =
                                      IF must_open
                                      THEN Append(returned, [ref |-> Len(parsers'),
                                                             board |-> r.board])
                                      ELSE returned
                                /\ file_path' = IF must_open THEN proj.file ELSE file_path
                                /\ view' = [scale |-> Opt(proj.scale, view.scale),
                                            offset_x |-> Opt(proj.offset_x, view.offset_x),
                                            offset_y |-> Opt(proj.offset_y, view.offset_y)]
                                /\ layer_checks' =
                                      [k \in DOMAIN populated |->
                                          IF k \in DOMAIN proj.vis THEN proj.vis[k]
                                          ELSE populated[k]]
                                /\ search_var' = proj.search
                                /\ comp_list' = IF nb = <<>> THEN comp_list
                                                ELSE SearchRows(nb[1], Query(proj.search))
                                /\ net_search_var' = proj.net_search
                                /\ net_list' = IF nb = <<>> THEN net_list
                                               ELSE FilteredNets(nb[1], Query(proj.net_search))
                                /\ v_board' = RedrawAt(view', nb, layer_checks').v_board
                                /\ canvas' = RedrawAt(view', nb, layer_checks').canvas
    /\ UNCHANGED <<selected_element, selected_net, exported, pointer>>
    /\ UNCHANGED <<parser, flip>>

\* A layer check box is clicked: its variable flips and redraw runs
ToggleLayer ==
    /\ Event
    /\ ev' = Handled("toggle_layer", <<>>, "")
    /\ \E num \in DOMAIN layer_checks :
          layer_checks' = [layer_checks EXCEPT ![num] = ~@]
    /\ v_board' = RedrawAt(view, v_board, layer_checks').v_board
    /\ canvas' = RedrawAt(view, v_board, layer_checks').canvas
    /\ UNCHANGED <<comp_list, net_list, search_var, net_search_var, selected_element,
                   selected_net, view, exported, file_path, pointer>>
    /\ UNCHANGED <<parser, flip, reparse>>

\* A key is released in the component search entry: _on_search
OnSearch ==
    /\ Event
    /\ ev' = Handled("on_search", <<>>, "")
    /\ \E text \in SearchTexts : search_var' = text
    /\ comp_list' = IF v_board = <<>> THEN comp_list
                    ELSE SearchRows(v_board[1], Query(search_var'))
    /\ UNCHANGED <<v_board, layer_checks, net_list, canvas, net_search_var, selected_element,
                   selected_net, view, exported, file_path, pointer>>
    /\ UNCHANGED <<parser, flip, reparse>>

OnNetSelect_KeepsElement ==
    /\ Event
    /\ v_board # <<>>
    /\ \E idx \in Indices(net_list) :
          LET filtered == FilteredNets(v_board[1], Query(net_search_var))
          IN /\ ev' = Handled("on_net_select", <<idx>>, "")
             /\ IF idx <= Len(filtered)
                THEN /\ selected_net' = <<filtered[idx]>>
                     /\ v_board' = RedrawAt(view, v_board, layer_checks).v_board
                     /\ canvas' = RedrawAt(view, v_board, layer_checks).canvas
                ELSE UNCHANGED <<selected_net, v_board, canvas>>
    /\ UNCHANGED <<layer_checks, comp_list, net_list, search_var, net_search_var, view,
                   exported, file_path, pointer, selected_element>>
    /\ UNCHANGED <<parser, flip, reparse>>

\* A row of the component list is selected: _on_component_select
OnComponentSelect ==
    /\ Event
    /\ v_board # <<>>
    /\ \E idx \in Indices(comp_list) :
          LET filtered == FilteredElements(v_board[1], Query(search_var))
          IN /\ ev' = Handled("on_component_select", <<idx>>, "")
             /\ IF idx <= Len(filtered)
                THEN /\ selected_element' = <<filtered[idx]>>
                     /\ selected_net' = <<>>
                     /\ view' = ZoomToPoint(view, filtered[idx].x, filtered[idx].y)
                     /\ v_board' = RedrawAt(view', v_board, layer_checks).v_board
                     /\ canvas' = RedrawAt(view', v_board, layer_checks).canvas
                ELSE UNCHANGED <<selected_element, selected_net, view, v_board, canvas>>
    /\ UNCHANGED <<layer_checks, comp_list, net_list, search_var, net_search_var, exported,
                   file_path, pointer>>
    /\ UNCHANGED <<parser, flip, reparse>>

\* A key is released in the net search entry: _on_net_search
OnNetSearch ==
    /\ Event
    /\ ev' = Handled("on_net_search", <<>>, "")
    /\ \E text \in NetSearchTexts : net_search_var' = text
    /\ net_list' = IF v_board = <<>> THEN net_list
                   ELSE FilteredNets(v_board[1], Query(net_search_var'))
    /\ UNCHANGED <<v_board, layer_checks, comp_list, canvas, search_var, selected_element,
                   selected_net, view, exported, file_path, pointer>>
    /\ UNCHANGED <<parser, flip, reparse>>

\* A row of the net list is selected: _on_net_select
OnNetSelect ==
    /\ Event
    /\ v_board # <<>>
    /\ \E idx \in Indices(net_list) :
          LET filtered == FilteredNets(v_board[1], Query(net_search_var))
          IN /\ ev' = Handled("on_net_select", <<idx>>, "")
             /\ IF idx <= Len(filtered)
                THEN /\ selected_net' = <<filtered[idx]>>
                     /\ selected_element' = <<>>
                     /\ v_board' = RedrawAt(view, v_board, layer_checks).v_board
                     /\ canvas' = RedrawAt(view, v_board, layer_checks).canvas
                ELSE UNCHANGED <<selected_element, selected_net, v_board, canvas>>
    /\ UNCHANGED <<layer_checks, comp_list, net_list, search_var, net_search_var, view,
                   exported, file_path, pointer>>
    /\ UNCHANGED <<parser, flip, reparse>>

\* The wheel turns over the canvas: _on_mouse_wheel, whose first statement after
\* the choice of the factor is screen_to_world
OnMouseWheel ==
    /\ Event
    /\ ev' = Handled("on_mouse_wheel", PointerAt, "")
    /\ \E up \in BOOLEAN :
          IF ScreenToWorld(view, PointerAt[1], PointerAt[2]).ok
          THEN /\ view' = MouseWheel(view, up, PointerAt[1], PointerAt[2])
               /\ v_board' = RedrawAt(view', v_board, layer_checks).v_board
               /\ canvas' = RedrawAt(view', v_board, layer_checks).canvas
          ELSE UNCHANGED <<view, v_board, canvas>>
    /\ UNCHANGED <<layer_checks, comp_list, net_list, search_var, net_search_var,
                   selected_element, selected_net, exported, file_path, pointer>>
    /\ UNCHANGED <<parser, flip, reparse>>

\* The middle button is pressed and the pointer dragged: _on_mid_down, _on_mid_drag
OnMidDrag ==
    /\ Event
    /\ ev' = Handled("on_mid_drag", PointerAt, "")
    /\ drag_start' = <<PointerAt[1], PointerAt[2], view.offset_x, view.offset_y>>
    /\ view' = Drag(view, DragBy[1], DragBy[2])
    /\ v_board' = RedrawAt(view', v_board, layer_checks).v_board
    /\ canvas' = RedrawAt(view', v_board, layer_checks).canvas
    /\ UNCHANGED <<layer_checks, comp_list, net_list, search_var, net_search_var,
                   selected_element, selected_net, exported, file_path, measure_mode,
                   measure_points>>
    /\ UNCHANGED <<parser, flip, reparse>>

\* The Measure check box is clicked
ToggleMeasure ==
    /\ Event
    /\ ev' = Handled("toggle_measure", <<>>, "")
    /\ measure_mode' = ~measure_mode
    /\ UNCHANGED <<v_board, layer_checks, net_list, canvas, comp_list, search_var,
                   net_search_var, selected_element, selected_net, view, exported,
                   file_path, measure_points, drag_start>>
    /\ UNCHANGED <<parser, flip, reparse>>

\* The left button is pressed on the canvas: _on_left_down
OnLeftDown ==
    /\ Event
    /\ \E pt \in ClickPoints :
          /\ ev' = Handled("on_left_down", pt, "")
          /\ IF measure_mode
             THEN /\ \E w \in {ScreenToWorld(view, pt[1], pt[2])} :
                        IF w.ok
                        THEN /\ measure_points' = LastTwo(Append(measure_points, w.v))
                             /\ v_board' = RedrawAt(view, v_board, layer_checks).v_board
                             /\ canvas' = RedrawAt(view, v_board, layer_checks).canvas
                        ELSE UNCHANGED <<measure_points, v_board, canvas>>
                  /\ UNCHANGED drag_start
             ELSE /\ drag_start' = <<pt[1], pt[2], view.offset_x, view.offset_y>>
                  /\ UNCHANGED <<measure_points, v_board, canvas>>
    /\ UNCHANGED <<layer_checks, comp_list, net_list, search_var, net_search_var,
                   selected_element, selected_net, view, exported, file_path, measure_mode>>
    /\ UNCHANGED <<parser, flip, reparse>>

\* The pointer moves with the left button down: _on_left_drag
OnLeftDrag ==
    /\ Event
    /\ ev' = Handled("on_left_drag", <<>>, "")
    /\ IF drag_start = <<>>
       THEN UNCHANGED <<view, v_board, canvas>>
       ELSE /\ view' = [view EXCEPT !.offset_x = drag_start[3] + DragBy[1],
                                    !.offset_y = drag_start[4] + DragBy[2]]
            /\ v_board' = RedrawAt(view', v_board, layer_checks).v_board
            /\ canvas' = RedrawAt(view', v_board, layer_checks).canvas
    /\ UNCHANGED <<layer_checks, comp_list, net_list, search_var, net_search_var,
                   selected_element, selected_net, exported, file_path, pointer>>
    /\ UNCHANGED <<parser, flip, reparse>>

\* The Clear Measure button: clear_measure
ClearMeasure ==
    /\ Event
    /\ ev' = Handled("clear_measure", <<>>, "")
    /\ measure_points' = <<>>
    /\ v_board' = RedrawAt(view, v_board, layer_checks).v_board
    /\ canvas' = RedrawAt(view, v_board, layer_checks).canvas
    /\ UNCHANGED <<layer_checks, comp_list, net_list, search_var, net_search_var,
                   selected_element, selected_net, view, exported, file_path, measure_mode,
                   drag_start>>
    /\ UNCHANGED <<parser, flip, reparse>>

\* The Fit button: fit_to_view, which returns early without a board or on
\* bounds of no width or height
FitButton ==
    /\ Event
    /\ ev' = Handled("fit_to_view", <<>>, "")
    /\ IF v_board = <<>> \/ FitToView(view, v_board[1]) = view
       THEN UNCHANGED <<view, v_board, canvas>>
       ELSE /\ view' = FitToView(view, v_board[1])
            /\ v_board' = RedrawAt(view', v_board, layer_checks).v_board
            /\ canvas' = RedrawAt(view', v_board, layer_checks).canvas
    /\ UNCHANGED <<layer_checks, comp_list, net_list, search_var, net_search_var,
                   selected_element, selected_net, exported, file_path, pointer>>
    /\ UNCHANGED <<parser, flip, reparse>>

\* The Reset View button: reset_view
ResetButton ==
    /\ Event
    /\ ev' = Handled("reset_view", <<>>, "")
    /\ view' = InitialView
    /\ v_board' = RedrawAt(view', v_board, layer_checks).v_board
    /\ canvas' = RedrawAt(view', v_board, layer_checks).canvas
    /\ UNCHANGED <<layer_checks, comp_list, net_list, search_var, net_search_var,
                   selected_element, selected_net, exported, file_path, pointer>>
    /\ UNCHANGED <<parser, flip, reparse>>

\* The Export SVG button with a file chosen: export_svg, _export_to_svg
ExportSvg ==
    /\ Event
    /\ ev' = Handled("export_svg", <<>>, "")
    /\ v_board # <<>>
    /\ exported' = <<ExportImage(v_board[1], layer_checks)>>
    /\ UNCHANGED <<v_board, layer_checks, comp_list, net_list, canvas, search_var,
                   net_search_var, selected_element, selected_net, view, file_path, pointer>>
    /\ UNCHANGED <<parser, flip, reparse>>

NextView ==
    \/ OpenBrd
    \/ LoadProject
    \/ ToggleLayer
    \/ OnSearch
    \/ OnComponentSelect
    \/ OnNetSearch
    \/ OnNetSelect
    \/ OnMouseWheel
    \/ OnMidDrag
    \/ ToggleMeasure
    \/ OnLeftDown
    \/ OnLeftDrag
    \/ ClearMeasure
    \/ FitButton
    \/ ResetButton
    \/ ExportSvg

SpecView == Init /\ [][NextView]_vars

-----------------------------------------------------------------------------
(* Properties *)

ParseReturned == pc \in {"parsed", "idle"}
ParseRaised == pc \in {"raised", "failed"}
HasContainers == containers.xml /\ containers.drawing /\ containers.board

\* C1: for a document that has the drawing and board containers, parse never
\* raises, whatever its elements contain (a malformed rotation descriptor of a
\* placement included): it returns a Board.
C1_ParseNeverRaises == HasContainers => ~ParseRaised

\* C2: when the document lacks the drawing or the board container, parse raises
\* before any layer, package, shape, placement or net is read, and no Board
\* reaches the caller.
C2_StructuralMismatchIsFatal ==
    (~containers.drawing \/ ~containers.board) =>
        /\ ParseRaised
        /\ err # ""
        /\ n = 0
        /\ board = NewBoard
        /\ pkg = <<>> /\ sig = <<>>
        /\ v_board = <<>>

C2_Witness == pc = "failed" /\ containers.drawing /\ ~containers.board

\* Every layer id: a redraw with all layers visible
AllLayers == 0..MaxLayerId

\* The shapes the instancing produces for placement e of board b
Instanced(b, e) == DrawElementShapes(b.packages, e, AllLayers)

\* The degree value and the mirror marker a descriptor [M]R<degrees> declares
DeclaredAngle(rot_str) ==
    LET d == LStrip(LStrip(rot_str, "M"), "R") IN IF d = <<>> THEN 0 ELSE DigitsVal(d, 0)
DeclaredMirror(rot_str) == rot_str # <<>> /\ Head(rot_str) = "M"

\* The descriptors of the model that follow the grammar (or are empty)
GoodRots == {r \in RotStrings : r \notin {<<"R">>, <<"S", "R", "9", "0">>, <<"a", "b", "c">>}}
                \cup {<<"M", "R", "1", "8", "0">>}

\* The positional points of a package-local shape and of an instanced shape
LocalPoints(s) ==
    CASE s.type = "Wire" -> {<<s.x1, s.y1>>, <<s.x2, s.y2>>}
      [] s.type = "Rect" -> {<<s.x1, s.y1>>, <<s.x1, s.y2>>, <<s.x2, s.y1>>, <<s.x2, s.y2>>}
      [] s.type = "Polygon" -> {<<s.vertices[j][1], s.vertices[j][2]>> : j \in Indices(s.vertices)}
      [] OTHER -> {<<s.x, s.y>>}

InstPoints(t) ==
    CASE t.type = "Wire" -> {<<t.x1, t.y1>>, <<t.x2, t.y2>>}
      [] t.type = "RectPoly" -> {t.points[j] : j \in 1..4}
      [] t.type = "Polygon" -> {t.vertices[j] : j \in Indices(t.vertices)}
      [] OTHER -> {<<t.x, t.y>>}

\* The point (x, y) rotated counter-clockwise by a degrees
Rotated(a, p) == <<p[1] * Cos(a) - p[2] * Sin(a), p[1] * Sin(a) + p[2] * Cos(a)>>

\* C3: for a placement with mirror = false and angle = 0, every coordinate of
\* every instanced shape (wire, pad, SMD, circle, rectangle, polygon) is the
\* package-local coordinate plus the placement position.
C3_PureTranslation ==
    v_board # <<>> =>
        LET b == v_board[1] IN
        \A i \in Indices(b.elements) :
            LET e == b.elements[i]
                shapes == MapGet(b.packages, e.package, <<>>)
                inst == Instanced(b, e)
            IN (~DeclaredMirror(e.rot) /\ DeclaredAngle(e.rot) = 0) =>
                  /\ Len(inst) = Len(shapes)
                  /\ \A k \in Indices(shapes) :
                        InstPoints(inst[k]) =
                            {<<p[1] + e.x, p[2] + e.y>> : p \in LocalPoints(shapes[k])}

\* C4: for a mirrored placement P, the x-coordinate of every instanced point is
\* P.x minus the x-offset of the local point after rotation; with angle = 0 the
\* mirrored and the unmirrored instance of a package at the same position are
\* mirror images across the vertical line x = P.x.
C4_MirrorReflects ==
    v_board # <<>> =>
        LET b == v_board[1] IN
        \A i \in Indices(b.elements) :
            LET e == b.elements[i]
                a == DeclaredAngle(e.rot)
                shapes == MapGet(b.packages, e.package, <<>>)
                inst == Instanced(b, e)
                plain == Instanced(b, [e EXCEPT !.rot = <<>>])
            IN DeclaredMirror(e.rot) =>
                  /\ Len(inst) = Len(shapes)
                  /\ \A k \in Indices(shapes) :
                        InstPoints(inst[k]) =
                            {<<e.x - Rotated(a, p)[1], e.y + Rotated(a, p)[2]>> :
                                p \in LocalPoints(shapes[k])}
                  /\ a = 0 =>
                        \A k \in Indices(shapes) :
                            InstPoints(inst[k]) =
                                {<<2 * e.x - q[1], q[2]>> : q \in InstPoints(plain[k])}

\* The coordinates a Board holds: wire end points, via, pad and SMD centres,
\* placement positions, polygon vertices
RawPoints(b) ==
    UNION {{<<b.wires[i].x1, b.wires[i].y1>>, <<b.wires[i].x2, b.wires[i].y2>>} :
              i \in Indices(b.wires)}
    \cup {<<b.vias[i].x, b.vias[i].y>> : i \in Indices(b.vias)}
    \cup {<<b.pads[i].x, b.pads[i].y>> : i \in Indices(b.pads)}
    \cup {<<b.smds[i].x, b.smds[i].y>> : i \in Indices(b.smds)}
    \cup {<<b.elements[i].x, b.elements[i].y>> : i \in Indices(b.elements)}
    \cup UNION {{b.polygons[i].vertices[j] : j \in Indices(b.polygons[i].vertices)} :
                    i \in Indices(b.polygons)}

\* The coordinates of the instanced shapes of every placement
AllInstPoints(b) ==
    UNION {UNION {InstPoints(Instanced(b, b.elements[i])[k]) :
                     k \in Indices(Instanced(b, b.elements[i]))} :
              i \in Indices(b.elements)}

\* C5: every raw and every instanced coordinate of a returned Board lies within
\* board.bounds, and each of the four edges is touched by one of them.
C5_BoundsTightInclusive ==
    ParseReturned =>
        LET pts == RawPoints(board) \cup AllInstPoints(board)
            bd == board.bounds
        IN pts # {} =>
              /\ bd[1] <= bd[3] /\ bd[2] <= bd[4]
              /\ \A p \in pts : bd[1] <= p[1] /\ p[1] <= bd[3] /\ bd[2] <= p[2] /\ p[2] <= bd[4]
              /\ \E p \in pts : p[1] = bd[1]
              /\ \E p \in pts : p[1] = bd[3]
              /\ \E p \in pts : p[2] = bd[2]
              /\ \E p \in pts : p[2] = bd[4]

MissingPackage(b, e) == e.package \notin DOMAIN b.packages

\* C6: a placement whose package has no entry in the Package table does not make
\* the parse fail; instancing it yields no shapes, and the bounds take only its
\* position from it.
C6_MissingPackageTolerated ==
    /\ (HasContainers /\ ParseRaised) =>
          \E i \in Indices(board.elements) : board.elements[i].rot \notin GoodRots
    /\ ParseReturned =>
          /\ \A i \in Indices(board.elements) :
                MissingPackage(board, board.elements[i]) =>
                   /\ Instanced(board, board.elements[i]) = <<>>
                   /\ BoundsElementPoints(board, board.elements[i]) =
                         {<<board.elements[i].x, board.elements[i].y>>}
          /\ (/\ board.elements # <<>>
              /\ \A i \in Indices(board.elements) : MissingPackage(board, board.elements[i]))
             => LET xs == {p[1] : p \in RawPoints(board)}
                    ys == {p[2] : p \in RawPoints(board)}
                IN board.bounds = <<SetMin(xs), SetMin(ys), SetMax(xs), SetMax(ys)>>

C6_Witness ==
    /\ pc = "idle"
    /\ DOMAIN board.packages # {}
    /\ \E i \in Indices(board.elements) :
          /\ MissingPackage(board, board.elements[i])
          /\ board.bounds[1] = board.elements[i].x

\* An element with a numeric attribute that does not convert
HasBadNumber(el) ==
    CASE el.tag = "wire" -> Bad \in {el.x1, el.y1, el.x2, el.y2, el.width, el.layer}
      [] el.tag = "via" -> Bad \in {el.x, el.y, el.drill, el.diameter}
      [] el.tag = "pad" -> Bad \in {el.x, el.y, el.drill, el.diameter, el.layer}
      [] el.tag = "smd" -> Bad \in {el.x, el.y, el.dx, el.dy, el.layer, el.roundness}
      [] el.tag = "circle" -> Bad \in {el.x, el.y, el.radius, el.width, el.layer}
      [] el.tag = "rectangle" -> Bad \in {el.x1, el.y1, el.x2, el.y2, el.layer}
      [] el.tag = "polygon" ->
            \/ Bad \in {el.layer, el.width}
            \/ \E j \in Indices(el.vertices) : Bad \in {el.vertices[j].x, el.vertices[j].y}
      [] el.tag = "text" -> Bad \in {el.x, el.y, el.layer, el.size}
      [] el.tag = "layer" -> Bad \in {el.number, el.color}
      [] el.tag = "element" -> Bad \in {el.x, el.y}
      [] OTHER -> FALSE

\* A rotation attribute that is absent or R<degrees>
PlainRot(a) ==
    a.st = "absent" \/
    (Len(a.s) >= 2 /\ Head(a.s) = "R" /\ \A j \in 2..Len(a.s) : a.s[j] \in Digits)

\* An element all of whose attributes are well formed
WellFormed(el) ==
    /\ el.tag \in {"wire", "via", "pad", "smd", "circle", "rectangle", "polygon", "text",
                   "layer", "element"}
    /\ ~HasBadNumber(el)
    /\ el.tag \in {"pad", "smd", "rectangle", "text"} => PlainRot(el.rot)
    /\ el.tag = "polygon" => Len(el.vertices) >= 3

\* The value of a numeric attribute, d if it is absent
Val(a, d) == IF a.st = "absent" THEN d ELSE a.v

\* The stored object carries the values of the element it was made from
Carries(el, o) ==
    CASE el.tag = "wire" ->
            /\ o.type = "Wire"
            /\ <<o.x1, o.y1, o.x2, o.y2>> =
                  <<Val(el.x1, 0), Val(el.y1, 0), Val(el.x2, 0), Val(el.y2, 0)>>
            /\ o.width = Val(el.width, 10) /\ o.layer = Val(el.layer, 0)
      [] el.tag = "via" ->
            o.type = "Via" /\ <<o.x, o.y, o.drill>> = <<Val(el.x, 0), Val(el.y, 0), Val(el.drill, 0)>>
      [] el.tag = "pad" ->
            /\ o.type = "Pad" /\ o.name = el.name.t
            /\ <<o.x, o.y, o.drill, o.diameter>> =
                  <<Val(el.x, 0), Val(el.y, 0), Val(el.drill, 0), Val(el.diameter, 0)>>
      [] el.tag = "smd" ->
            /\ o.type = "SMD" /\ o.name = el.name.t
            /\ <<o.x, o.y, o.dx, o.dy, o.layer>> =
                  <<Val(el.x, 0), Val(el.y, 0), Val(el.dx, 0), Val(el.dy, 0), Val(el.layer, 0)>>
      [] el.tag = "circle" ->
            /\ o.type = "Circle"
            /\ <<o.x, o.y, o.radius, o.layer>> =
                  <<Val(el.x, 0), Val(el.y, 0), Val(el.radius, 0), Val(el.layer, 0)>>
      [] el.tag = "rectangle" ->
            /\ o.type = "Rect"
            /\ <<o.x1, o.y1, o.x2, o.y2, o.layer>> =
                  <<Val(el.x1, 0), Val(el.y1, 0), Val(el.x2, 0), Val(el.y2, 0), Val(el.layer, 0)>>
      [] el.tag = "polygon" ->
            /\ o.type = "Polygon" /\ o.layer = Val(el.layer, 0)
            /\ o.vertices = [j \in Indices(el.vertices) |->
                                <<Val(el.vertices[j].x, 0), Val(el.vertices[j].y, 0)>>]
      [] el.tag = "text" ->
            /\ o.type = "Text" /\ o.text = el.text
            /\ <<o.x, o.y, o.layer>> = <<Val(el.x, 0), Val(el.y, 0), Val(el.layer, 0)>>
      [] el.tag = "element" ->
            /\ o.name = el.name.t /\ o.package = el.package.t
            /\ <<o.x, o.y>> = <<Val(el.x, 0), Val(el.y, 0)>>
            /\ o.rot = (IF el.rot.st = "absent" THEN <<>> ELSE el.rot.s)

Prefix(s, t) == Len(s) <= Len(t) /\ SubSeq(t, 1, Len(s)) = s

\* The lists of stored objects: the Board's, and the shape list of the package
\* being read
StoredLists(b, pk) ==
    [wires |-> b.wires, vias |-> b.vias, pads |-> b.pads, smds |-> b.smds,
     elements |-> b.elements, polygons |-> b.polygons, texts |-> b.texts,
     shapes |-> IF pk = <<>> THEN <<>> ELSE pk[1].shapes]

\* The list an element read in loop l is stored in
TargetList(l) ==
    CASE l \in {"plain_wire", "sig_wire"} -> "wires"
      [] l = "sig_via" -> "vias"
      [] l = "plain_pad" -> "pads"
      [] l = "plain_smd" -> "smds"
      [] l \in {"plain_polygon", "sig_polygon"} -> "polygons"
      [] l = "plain_text" -> "texts"
      [] l = "elements" -> "elements"
      [] OTHER -> "shapes"

C7_Step ==
    LET old == StoredLists(board, pkg)
        new == StoredLists(board', pkg')
        el == last'.el
        l == last'.loop
    IN \* nothing stored is ever dropped, altered or reordered
       /\ \A f \in DOMAIN old \ {"shapes"} : Prefix(old[f], new[f])
       /\ (pkg # <<>> /\ pkg' # <<>>) => Prefix(old.shapes, new.shapes)
       /\ \A k \in DOMAIN board.layers :
             /\ k \in DOMAIN board'.layers
             /\ board'.layers[k] # board.layers[k] =>
                   (n' = n + 1 /\ l = "layers" /\ WellFormed(el) /\ el.number.v = k)
       /\ (n' = n + 1 /\ el.tag \notin {"package", "signal"}) =>
             \* an element with an unparsable number is absent, and changes nothing
             /\ HasBadNumber(el) => (board' = board /\ pkg' = pkg)
             \* a well-formed element is stored, at the end of its list
             /\ (WellFormed(el) /\ el.tag # "layer") =>
                   /\ Len(new[TargetList(l)]) = Len(old[TargetList(l)]) + 1
                   /\ Carries(el, new[TargetList(l)][Len(new[TargetList(l)])])
             /\ (WellFormed(el) /\ el.tag = "layer") =>
                   /\ el.number.v \in DOMAIN board'.layers
                   /\ board'.layers[el.number.v].color = Val(el.color, 7)

\* C7: an element with an unparsable numeric attribute is absent from the Board,
\* and every other well-formed element is stored, unchanged and in document
\* order within its list: one element's failure never drops or alters another.
C7_ElementFailureIsLocal == [][C7_Step]_vars

C7_Witness ==
    /\ pc = "idle"
    /\ last.loop = "plain_pad" /\ HasBadNumber(last.el)
    /\ Len(board.wires) = 2 /\ board.wires[1] # board.wires[2]
    /\ board.pads = <<>>

\* Every polygon the parser has stored: in the Board's list, in a Package, or in
\* the shape list of the package being read
StoredPolygons ==
    {board.polygons[i] : i \in Indices(board.polygons)}
    \cup UNION {{board.packages[k][i] : i \in {j \in Indices(board.packages[k]) :
                                                  board.packages[k][j].type = "Polygon"}} :
                   k \in DOMAIN board.packages}
    \cup (IF pkg = <<>> THEN {}
          ELSE {pkg[1].shapes[i] : i \in {j \in Indices(pkg[1].shapes) :
                                             pkg[1].shapes[j].type = "Polygon"}})

\* C8: for every stored polygon, is_outline is true iff its layer is the outline
\* layer (20), and fill is true iff its net is non-empty and it is not an outline.
C8_PolygonClassification ==
    \A p \in StoredPolygons :
        /\ p.is_outline <=> (p.layer = 20)
        /\ p.fill <=> (p.net # "" /\ p.layer # 20)

C8_Witness ==
    /\ \E i \in Indices(board.polygons) :
          /\ board.polygons[i].layer = 20 /\ board.polygons[i].net = "GND"
          /\ ~board.polygons[i].fill
    /\ \E i \in Indices(board.polygons) :
          /\ board.polygons[i].layer = 1 /\ board.polygons[i].net = "GND"
          /\ board.polygons[i].fill

\* C9: the nets of the net list are exactly the non-empty net fields of the wires,
\* vias and polygons of the Board; "" is never among them.
C9_NetListComplete ==
    pc = "idle" =>
        LET b == v_board[1]
            listed == {net_list[i] : i \in Indices(net_list)}
        IN /\ \A name \in SignalNames :
                 name \in listed <=>
                    /\ name # ""
                    /\ \/ \E i \in Indices(b.wires) : b.wires[i].net = name
                       \/ \E i \in Indices(b.vias) : b.vias[i].net = name
                       \/ \E i \in Indices(b.polygons) : b.polygons[i].net = name
           /\ listed \subseteq SignalNames \ {""}

C9_Witness ==
    /\ pc = "idle"
    /\ net_list = <<"GND">>
    /\ \E i \in Indices(board.wires) : board.wires[i].net = ""
    /\ \E i \in Indices(board.vias) : board.vias[i].net = "GND"

\* The ids of the flip table
FlipTable == {1, 16, 21, 22, 25, 26, 29, 30}

\* C10: flipping a layer id of the flip table twice returns it, and an id absent
\* from the table is a fixed point of a single flip.
C10_FlipIsInvolution ==
    /\ flips = 2 => flipped = lyr
    /\ (flips = 1 /\ lyr \notin FlipTable) => flipped = lyr
    /\ (flips = 1 /\ lyr \in FlipTable) => (flipped \in FlipTable /\ flipped # lyr)

C10_Witness == flips = 2 /\ lyr = 30 /\ flipped = 30

\* The number of vertex children a polygon element declares
Declared(el) == Len(el.vertices)

C13_Step ==
    /\ \A p \in StoredPolygons' : Len(p.vertices) >= 3
    /\ (n' = n + 1 /\ last'.el.tag = "polygon" /\ Declared(last'.el) < 3) =>
          (board' = board /\ pkg' = pkg)

\* C13: every polygon stored in the Board's polygon list or in a Package's shape
\* list has at least 3 vertices; reading a polygon element that declares 0, 1 or
\* 2 vertices stores nothing.
C13_PolygonHasThreeVertices == [][C13_Step]_vars

C13_Witness ==
    /\ pc = "idle"
    /\ last.loop = "sig_polygon" /\ Declared(last.el) = 2 /\ ~HasBadNumber(last.el)
    /\ Len(board.polygons) = 1 /\ Len(board.polygons[1].vertices) = 3

\* The corners of a package rectangle, as the four combinations of its ends
Corners(s) == {<<s.x1, s.y1>>, <<s.x1, s.y2>>, <<s.x2, s.y1>>, <<s.x2, s.y2>>}

\* The coordinates a placement contributes: its position, and every point of
\* its package's shapes, rotated by the declared angle, reflected in x when the
\* placement is mirrored, and moved to the placement position
PlacementPoints(b, e) ==
    LET shapes == MapGet(b.packages, e.package, <<>>)
        a == DeclaredAngle(e.rot)
        Place(p) == IF DeclaredMirror(e.rot)
                    THEN <<e.x - Rotated(a, p)[1], e.y + Rotated(a, p)[2]>>
                    ELSE <<e.x + Rotated(a, p)[1], e.y + Rotated(a, p)[2]>>
    IN {<<e.x, e.y>>} \cup
       UNION {{Place(p) : p \in (IF shapes[k].type = "Rect" THEN Corners(shapes[k])
                                 ELSE LocalPoints(shapes[k]))} : k \in Indices(shapes)}

\* The coordinates observed in a Board: those of its lists and of its placements
ObservedPoints(b) ==
    RawPoints(b) \cup UNION {PlacementPoints(b, b.elements[i]) : i \in Indices(b.elements)}

NoCoordinates(b) ==
    /\ b.wires = <<>> /\ b.vias = <<>> /\ b.pads = <<>> /\ b.smds = <<>>
    /\ b.elements = <<>> /\ b.polygons = <<>>

\* C14: every Board parse returns has bounds set; they are (0, 0, 100, 100) when
\* the document yields no wire, via, pad, SMD, placement or polygon, and the
\* min/max of the observed coordinates otherwise.
C14_DefaultBounds ==
    ParseReturned =>
        /\ board.bounds # <<>>
        /\ Len(board.bounds) = 4
        /\ NoCoordinates(board) => board.bounds = <<0, 0, Mm(100), Mm(100)>>
        /\ ~NoCoordinates(board) =>
              LET xs == {p[1] : p \in ObservedPoints(board)}
                  ys == {p[2] : p \in ObservedPoints(board)}
              IN board.bounds = <<SetMin(xs), SetMin(ys), SetMax(xs), SetMax(ys)>>

C14_Witness ==
    /\ pc = "idle"
    /\ board.texts # <<>> /\ DOMAIN board.layers # {} /\ DOMAIN board.packages # {}
    /\ NoCoordinates(board)
    /\ v_board[1].bounds = <<0, 0, Mm(100), Mm(100)>>

\* A descriptor of the form [M]R<degrees>
IsDescriptor(s) ==
    LET t == IF s # <<>> /\ Head(s) = "M" THEN Tail(s) ELSE s
    IN Len(t) >= 2 /\ Head(t) = "R" /\ \A j \in 2..Len(t) : t[j] \in Digits

C15_Step ==
    LET el == last'.el
        new == StoredLists(board', pkg')[TargetList(last'.loop)]
        old == StoredLists(board, pkg)[TargetList(last'.loop)]
    IN (/\ n' = n + 1
        /\ el.tag \in {"pad", "smd", "rectangle", "text"}
        /\ ~HasBadNumber(el)
        /\ el.rot.st = "val" => IsDescriptor(el.rot.s))
       => /\ Len(new) = Len(old) + 1
          /\ Carries(el, new[Len(new)])
          /\ new[Len(new)].rot = IF el.rot.st = "absent" THEN 0 ELSE DeclaredAngle(el.rot.s)

\* C15: a pad, SMD, rectangle or text whose rot attribute is [M]R<degrees> is
\* stored with rotation <degrees> (rot = 'MR90' gives 90, the element is not
\* skipped), and one without a rot attribute is stored with rotation 0.
C15_MirrorMarkerStripped == [][C15_Step]_vars

\* The point p moved by the placement position of e
Translated(e, p) == <<e.x + p[1], e.y + p[2]>>

\* C16: for a mirrored placement whose descriptor declares the angle a, every
\* instanced point is the package point with x negated, then rotated
\* counter-clockwise by a (not by -a), then moved by the placement position.
C16_MirrorThenRotate ==
    v_board # <<>> =>
        LET b == v_board[1] IN
        \A i \in Indices(b.elements) :
            LET e == b.elements[i]
                a == DeclaredAngle(e.rot)
                shapes == MapGet(b.packages, e.package, <<>>)
                inst == Instanced(b, e)
            IN (DeclaredMirror(e.rot) /\ a \in {0, 90, 180, 270}) =>
                  /\ Len(inst) = Len(shapes)
                  /\ \A k \in Indices(shapes) :
                        InstPoints(inst[k]) =
                            {Translated(e, Rotated(a, <<-p[1], p[2]>>)) :
                                p \in LocalPoints(shapes[k])}

\* C17: for every placement and every shape of its package, the coordinates the
\* bounds computation accumulates are the coordinates of the shape the
\* instancing produces (wire end points, pad, SMD and circle centres, the four
\* rectangle corners, polygon vertices).
C17_BoundsAgreeWithInstancing ==
    v_board # <<>> =>
        LET b == v_board[1] IN
        \A i \in Indices(b.elements) :
            LET e == b.elements[i]
                shapes == MapGet(b.packages, e.package, <<>>)
                inst == Instanced(b, e)
            IN /\ Len(inst) = Len(shapes)
               /\ \A k \in Indices(shapes) :
                     BoundsShapePoints(e, ParseRot(e.rot).v, Contains(e.rot, "M"), shapes[k])
                        = InstPoints(inst[k])

\* C18: an instanced rectangle is the four corners of the package rectangle,
\* each mirrored (x negated when the placement is mirrored), rotated about the
\* placement origin by the placement rotation and moved by the placement
\* position; it is not drawn centred on the placement position.
C18_RectangleCorners ==
    v_board # <<>> =>
        LET b == v_board[1] IN
        \A i \in Indices(b.elements) :
            LET e == b.elements[i]
                rot == ParseRot(e.rot).v
                shapes == MapGet(b.packages, e.package, <<>>)
                inst == Instanced(b, e)
                Mirrored(p) == IF Contains(e.rot, "M") THEN <<-p[1], p[2]>> ELSE p
            IN \A k \in Indices(shapes) :
                  shapes[k].type = "Rect" =>
                     {inst[k].points[j] : j \in 1..4} =
                        {Translated(e, Rotated(rot, Mirrored(p))) : p \in Corners(shapes[k])}

\* C19: the rotation of an instanced pad, SMD or rectangle is shape.rotation +
\* placement angle for an unmirrored placement and shape.rotation - placement
\* angle for a mirrored one, the placement angle being the degrees its
\* descriptor declares.
C19_ShapeRotation ==
    v_board # <<>> =>
        LET b == v_board[1] IN
        \A i \in Indices(b.elements) :
            LET e == b.elements[i]
                a == DeclaredAngle(e.rot)
                shapes == MapGet(b.packages, e.package, <<>>)
                inst == Instanced(b, e)
            IN \A k \in Indices(shapes) :
                  shapes[k].type \in {"Pad", "SMD", "Rect"} =>
                     inst[k].rot = IF DeclaredMirror(e.rot) THEN shapes[k].rot - a
                                   ELSE shapes[k].rot + a

\* C12: every parse returns a Board object no earlier parse returned, and every
\* Board returned earlier is still as it was when it was returned.
C12_ReparseFreshBoard ==
    \A i \in Indices(returned) :
        /\ \A j \in Indices(returned) : i # j => returned[i].ref # returned[j].ref
        /\ parsers[returned[i].ref].board = returned[i].board

\* C11: whatever the user does after a load (layer toggles and the redraws they
\* cause, searches, selections, zoom, pan, fit, reset, export), the Board the
\* viewer holds, with every stored shape, Package, placement and its bounds, is
\* the Board parse returned; instanced geometry is only ever on the canvas.
C11_ConsumersLeaveBoard ==
    v_board # <<>> =>
        /\ returned # <<>>
        /\ v_board[1] = returned[Len(returned)].board
        /\ parsers[returned[Len(returned)].ref].board = returned[Len(returned)].board

C11_Witness ==
    /\ selected_element # <<>> /\ DeclaredMirror(selected_element[1].rot)
    /\ exported # <<>>
    /\ \E i \in Indices(canvas) : canvas[i] # <<>>
    /\ v_board[1].packages # EmptyMap

\* The pairs of the layer flip table
FlipPairs == {<<1, 16>>, <<21, 22>>, <<25, 26>>, <<29, 30>>}

\* The layer an id is flipped to: its partner in the table, or itself
FlipImage(l) ==
    IF \E f \in FlipPairs : f[1] = l THEN (CHOOSE f \in FlipPairs : f[1] = l)[2]
    ELSE IF \E f \in FlipPairs : f[2] = l THEN (CHOOSE f \in FlipPairs : f[2] = l)[1]
    ELSE l

\* C20: the layer of an instanced shape of any kind is the flip-table image of
\* the package shape's layer when the placement is mirrored and the package
\* shape's layer when it is not, and the instanced shape is drawn iff that
\* layer is visible.  (A redraw at scale 0 stops in the grid and instances
\* nothing.)
C20_InstancedLayer ==
    (v_board # <<>> /\ view.scale # 0) =>
        LET b == v_board[1] IN
        /\ Len(canvas) = Len(b.elements)
        /\ \A i \in Indices(b.elements) :
              LET e == b.elements[i]
                  shapes == MapGet(b.packages, e.package, <<>>)
                  Remap(l) == IF DeclaredMirror(e.rot) THEN FlipImage(l) ELSE l
                  remapped == [k \in Indices(shapes) |->
                                 [kind |-> shapes[k].type, layer |-> Remap(shapes[k].layer)]]
                  Visible(s) == s.layer \in DOMAIN layer_checks /\ layer_checks[s.layer]
                  KindOf(t) == IF t.type = "RectPoly" THEN "Rect" ELSE t.type
              IN [k \in Indices(canvas[i]) |->
                    [kind |-> KindOf(canvas[i][k]), layer |-> canvas[i][k].layer]]
                  = SelectSeq(remapped, Visible)

C20_Witness ==
    \E i \in Indices(canvas) :
        /\ DeclaredMirror(v_board[1].elements[i].rot)
        /\ \E k \in Indices(canvas[i]) : canvas[i][k].type = "Wire" /\ canvas[i][k].layer = 16
        /\ \E k \in Indices(canvas[i]) : canvas[i][k].type = "SMD" /\ canvas[i][k].layer = 1
        /\ \E k \in Indices(canvas[i]) : canvas[i][k].type = "Polygon" /\ canvas[i][k].layer = 20
        /\ \E j \in Indices(canvas) :
              /\ ~DeclaredMirror(v_board[1].elements[j].rot)
              /\ \E k \in Indices(canvas[j]) : canvas[j][k].type = "Wire" /\ canvas[j][k].layer = 1

\* The wires, pads and SMDs of the Board's flat lists
FlatLists(b) == <<b.wires, b.pads, b.smds>>

C21_Step ==
    /\ \A i \in Indices(board'.wires) : board'.wires[i].kind \in {"plain", "signal"}
    /\ (n' = n + 1 /\ last'.loop \in {"pkg_wire", "pkg_pad", "pkg_smd"}) =>
          FlatLists(board') = FlatLists(board)

\* C21: every wire of the Board's flat wire list has kind plain or signal, and
\* reading a wire, pad or SMD inside a package adds nothing to the flat wire, pad
\* and SMD lists: package-local shapes are stored only in the Package table.
C21_FlatListsHoldNoPackageShapes == [][C21_Step]_vars

\* The objects with a net field that a step has added to the Board
AddedNets ==
    {board'.wires[i].net : i \in Indices(board'.wires) \ Indices(board.wires)}
    \cup {board'.vias[i].net : i \in Indices(board'.vias) \ Indices(board.vias)}
    \cup {board'.polygons[i].net : i \in Indices(board'.polygons) \ Indices(board.polygons)}

C22_Step ==
    LET el == last'.el
        l == last'.loop
        read == n' = n + 1 /\ WellFormed(el)
        w == board'.wires[Len(board'.wires)]
        v == board'.vias[Len(board'.vias)]
        p == board'.polygons[Len(board'.polygons)]
    IN \* what a signal declares is stored under the signal's name
       /\ (read /\ l = "sig_wire") =>
             /\ Len(board'.wires) = Len(board.wires) + 1
             /\ Carries(el, w) /\ w.kind = "signal" /\ w.net = sig[1]
       /\ (read /\ l = "sig_via") =>
             /\ Len(board'.vias) = Len(board.vias) + 1
             /\ Carries(el, v) /\ v.net = sig[1]
       /\ (read /\ l = "sig_polygon") =>
             /\ Len(board'.polygons) = Len(board.polygons) + 1
             /\ Carries(el, p) /\ p.net = sig[1]
             /\ sig[1] # "" => (p.fill <=> p.layer # OUTLINE_LAYER)
       \* and nothing else gets the name: what was stored keeps its net, and a
       \* shape read outside a signal has none
       /\ Prefix(board.wires, board'.wires)
       /\ Prefix(board.vias, board'.vias)
       /\ Prefix(board.polygons, board'.polygons)
       /\ AddedNets \subseteq (IF n' = n + 1 /\ l \in {"sig_wire", "sig_via", "sig_polygon"}
                               THEN {sig[1]} ELSE {""})

\* C22: a wire declared inside a net is stored with kind signal and the net's
\* name, a via and a polygon declared inside it with the net's name, the polygon
\* of a named net filled unless it is on the outline layer; the shapes already
\* stored keep their net, and a shape declared outside a net has net "".
C22_SignalShapesCarryNet == [][C22_Step]_vars

C22_Witness ==
    /\ pc = "idle"
    /\ Len(board.wires) = 2
    /\ board.wires[1].kind = "plain" /\ board.wires[1].net = ""
    /\ board.wires[2].kind = "signal" /\ board.wires[2].net = "GND"

C23_Step ==
    LET el == last'.el
        num == Val(el.number, 0)
    IN /\ (n' = n + 1 /\ last'.loop = "layers" /\ ~HasBadNumber(el)) =>
             /\ DOMAIN board'.layers = DOMAIN board.layers \cup {num}
             /\ board'.layers[num] =
                   [number |-> num,
                    name |-> IF el.name.st = "absent" THEN "L" \o ToString(num)
                             ELSE el.name.t,
                    color |-> Val(el.color, 7),
                    visible |-> (el.visible.st = "absent" \/ el.visible.t = "yes"),
                    active |-> (el.active.st = "absent" \/ el.active.t = "yes")]
             /\ \A k \in DOMAIN board.layers \ {num} : board'.layers[k] = board.layers[k]
       /\ ~(n' = n + 1 /\ last'.loop = "layers" /\ ~HasBadNumber(el)) =>
             board'.layers = board.layers

\* C23: a layer declaration sets the entry of its id to its own values, with
\* color 7, visible yes and active yes for absent attributes, overwriting an
\* earlier declaration of the id and leaving the other ids alone; a declaration
\* whose id or color is not an integer changes nothing, and nothing else changes
\* the layer table.
C23_LayerTable == [][C23_Step]_vars

C23_Witness ==
    /\ pc = "idle" /\ n = 3
    /\ DOMAIN board.layers = {1}
    /\ board.layers[1] = [number |-> 1, name |-> "L1", color |-> 7, visible |-> FALSE,
                          active |-> TRUE]
    /\ last.loop = "layers" /\ last.el.color = Bad

\* C24: with a board open, the rows of the component list are the placements
\* that match the text of the search entry, in order, and the rows of the net
\* list are the sorted nets that match the text of the net search entry, so
\* that row i shows the item a click on row i selects.
C24_ListsShowFiltered ==
    v_board # <<>> =>
        /\ comp_list = SearchRows(v_board[1], Query(search_var))
        /\ net_list = FilteredNets(v_board[1], Query(net_search_var))

\* C25: the selected placement is none or a placement of the Board that is
\* open, and the selected net is none or a net of that Board.
C25_SelectionOfCurrentBoard ==
    /\ selected_element # <<>> =>
          /\ v_board # <<>>
          /\ \E i \in Indices(v_board[1].elements) :
                v_board[1].elements[i] = selected_element[1]
    /\ selected_net # <<>> =>
          /\ v_board # <<>>
          /\ selected_net[1] \in BoardNets(v_board[1])

C26_Step ==
    (events' = events + 1 /\ ev'.dialog \in {"Open failed", "Load failed"}) =>
        UNCHANGED <<v_board, file_path, layer_checks, comp_list, net_list, view>>

\* C26: a handler that ends in the "Open failed" or "Load failed" message box
\* (open_brd or load_project, whatever the parser or the file raised) leaves the
\* viewer's board, file path, layer check boxes, component list, net list and
\* view as they were.
C26_FailedOpenChangesNothing == [][C26_Step]_vars

C26_Witness ==
    /\ ev.name = "load_project" /\ ev.dialog = "Open failed"
    /\ v_board # <<>> /\ file_path = <<DocFull>>
    /\ Len(parsers) = 2 /\ parsers[2].path = DocNoBoard

\* C27: the selected placement and the selected net are never both set.
C27_OneSelection == selected_element = <<>> \/ selected_net = <<>>

C27_Witness ==
    /\ ev.name = "on_net_select"
    /\ selected_net = <<"GND">> /\ selected_element = <<>>
    /\ view.scale = 4000

\* C28: the view scale is strictly positive, and after a turn of the mouse
\* wheel it lies in [0.05, 200].
C28_ScalePositive ==
    /\ view.scale > 0
    /\ ev.name = "on_mouse_wheel" => view.scale \in 5..20000

\* C29: the shapes drawn for a placement are the instances of the package of
\* the placement's name that the placement's own library declares.
C29_PlacementUsesOwnLibrary ==
    (v_board # <<>> /\ view.scale # 0) =>
        \A i \in Indices(v_board[1].elements) :
            LET e == v_board[1].elements[i]
                Own(p) == p.library = e.library /\ p.name = e.package
                declared == SelectSeq(file_path[1].packages, Own)
            IN declared # <<>> =>
                  canvas[i] =
                     DrawElementShapes(
                        ParseLibraries(NewBoard, <<declared[Len(declared)]>>).packages,
                        e, VisibleLayers(layer_checks))

C30_Step ==
    /\ Len(measure_points') <= 2
    /\ (events' = events + 1 /\ ev'.name = "on_left_down") =>
          IF measure_mode
          THEN LET at == ScreenToWorld(view, ev'.at[1], ev'.at[2])
                   all == Append(measure_points, at.v)
               IN /\ at.ok
                  /\ measure_points' = IF Len(all) > 2 THEN <<all[Len(all) - 1], all[Len(all)]>>
                                       ELSE all
          ELSE measure_points' = measure_points
    /\ (events' = events + 1 /\ ev'.name = "clear_measure") => measure_points' = <<>>

\* C30: the measure point list never holds more than 2 points; a click in
\* measure mode appends the clicked point and keeps the two most recent points,
\* a click outside measure mode leaves the list as it is, and Clear Measure
\* empties it.
C30_MeasurePoints == [][C30_Step]_vars

====
